---- MODULE Spec2Model ----
(***************************************************************************)
(* Market-data acquisition and failover layer of bist-tracker:             *)
(*   - ProviderManager (core-src/providers/manager.py): priority-ordered   *)
(*     failover over the registered providers, the manager's health map    *)
(*     and the failover statistics;                                        *)
(*   - the REST providers as far as the manager observes them              *)
(*     (tradingview_http.py, yahoo.py, finnhub.py);                        *)
(*   - TradingViewWebSocketProvider (tradingview_ws.py): connect,          *)
(*     receive loop, heartbeat echo, reconnect, disconnect, the            *)
(*     subscriptions and the get_realtime_stream calls;                    *)
(*   - BarAggregator (tradingview_ws.py): ticks folded into OHLCV bars;    *)
(*   - RateLimiter (finnhub.py): the sliding window of call times;         *)
(*   - the OHLCV data path (yahoo.py, base.py): tail, normalisation;       *)
(*   - the reconnect backoff and the frame codec of tradingview_ws.py.     *)
(*                                                                         *)
(* Each subsystem has its own specification (SpecMgr, SpecWs, SpecStream,  *)
(* SpecHeartbeat, SpecAgg, SpecRl, SpecOhlcv, SpecBackoff, SpecCodec,      *)
(* SpecFinnhub, SpecHttp, SpecBars); the variables of the other subsystems *)
(* keep their constructed values.                                          *)
(*                                                                         *)
(* asyncio runs one coroutine at a time and switches only at an await that *)
(* really suspends, so one action is the code from one suspension point to *)
(* the next.                                                               *)
(***************************************************************************)
EXTENDS Integers, Sequences, FiniteSets, TLC

VARIABLES
    \* ---- ProviderManager -------------------------------------------------
    providers,          \* self.providers: the registered provider names
    health,             \* self.health: name -> status, the manager's health map
    stats,              \* self._stats
    calls,              \* the get_ohlcv coroutines in progress, one per caller
    auth_failed,        \* history: providers whose last answer was a 401 not yet followed by a refresh
    \* ---- providers' own state ----------------------------------------------
    health_status,      \* BaseDataProvider._health_status, per provider
    consecutive_failures, \* TradingViewHTTPProvider._consecutive_failures
    yahoo_cache,        \* YahooProvider._cache / _cache_timestamp: the valid entries
    finnhub_req,        \* the FinnhubProvider._request in progress
    \* ---- TradingViewWebSocketProvider ---------------------------------------
    ws,                 \* self._ws: the socket in use, 0 for None
    is_connected,       \* self._is_connected
    reconnect_attempts, \* self._reconnect_attempts
    last_message_age,   \* time.time() - self._last_message_time, against MESSAGE_TIMEOUT
    receive_task,       \* self._receive_task: the task last created, 0 for None
    health_monitor_task, \* self._health_monitor_task
    recv_loops,         \* the _receive_loop tasks: where each is suspended
    monitor_loops,      \* the _health_monitor_loop tasks
    open_socks,         \* the sockets the transport holds open
    sockets_created,    \* websockets.connect calls that succeeded
    api,                \* the application's connect() / disconnect() in progress
    on_disconnect_callback, \* whether self._on_disconnect_callback is set
    disconnect_callbacks,   \* history: calls of the disconnect callback
    timed_out,          \* history: the receive task whose wait for a message timed out in the last step, 0 for none
    failed_reconnects,  \* history: failed reconnects since the last successful connect
    ws_ohlcv,           \* history: the last get_ohlcv of the streaming provider
    session_id,         \* self._session_id
    subscribed_symbols, \* self._subscribed_symbols: (symbol, timeframe) in insertion order
    bar_aggregators,    \* self._bar_aggregators: the timeframe of each symbol's aggregator
    streams,            \* the get_realtime_stream generators: where each is suspended
    sent,               \* history: the frames sent on each socket
    heartbeats,         \* history: the heartbeat frames received, with their socket
    \* ---- BarAggregator -------------------------------------------------------
    agg_timeframe,      \* BarAggregator.timeframe
    current_bar,        \* self.current_bar
    bar_start_time,     \* self.bar_start_time
    ticks,              \* history: the ticks fed to process_tick
    emitted             \* history: the bars process_tick returned

\* RateLimiter (finnhub.py): the wall clock in tenths of a second, the
\* limiter's fields, the lock's holder and FIFO of waiters, each acquire()
\* caller's position, and the times at which acquire() returned
VARIABLES clock, rl_max_calls, rl_period, rl_calls, rl_lock, rl_waiters,
          acq, granted

rlVars ==
    <<clock, rl_max_calls, rl_period, rl_calls, rl_lock, rl_waiters, acq,
      granted>>

\* One get_ohlcv followed through its data: the rows the source gave, the
\* frame the provider returned and the frame the manager returned
VARIABLE ohlcv

\* The reconnects in a row since the last successful connect: the attempt
\* counter, the jitter drawn and the delay slept before each attempt, and
\* whether the connection has given up
VARIABLE backoff

\* One receive buffer followed through parse_raw_message: the payloads of the
\* frames the peer wrote, the buffer as received and the messages returned
VARIABLE codec

\* The requests of TradingViewHTTPProvider.get_snapshots: those awaiting their
\* answer, those made so far and answered so far, and the last answer
VARIABLE http_req

\* The way of a bar from the quote that closes it to the consumer of a
\* get_realtime_stream call: the connection, the subscriptions, the queue
\* _pending_bars and the streams with what each has yielded
VARIABLE bar_path

mgrVars == <<providers, health, stats, calls, auth_failed,
             consecutive_failures, yahoo_cache, finnhub_req>>

wsVars == <<ws, is_connected, reconnect_attempts, last_message_age, receive_task,
            health_monitor_task, recv_loops, monitor_loops, open_socks,
            sockets_created, api, on_disconnect_callback, disconnect_callbacks,
            failed_reconnects, session_id, subscribed_symbols, bar_aggregators,
            streams, sent, heartbeats, timed_out>>

aggVars == <<agg_timeframe, current_bar, bar_start_time, ticks, emitted>>

\* health_status is written by the manager's providers and by the streaming provider
vars ==
    <<mgrVars, health_status, wsVars, ws_ohlcv, aggVars, rlVars, ohlcv, backoff,
      codec, http_req, bar_path>>

-----------------------------------------------------------------------------
(* Bounds *)

\* get_ohlcv calls started in one behaviour
MaxRequests == 2

\* sockets opened in one behaviour
MaxSockets == 2

\* ticks fed to one aggregator
MaxTicks == 4

\* rows in the answer of a data source
MaxRows == 3

\* heartbeat frames received in one behaviour
MaxHeartbeats == 2

\* frames in one receive buffer
MaxFrames == 3

\* requests of the TradingView HTTP provider in one behaviour
MaxHttpRequests == 6

\* requests of the TradingView HTTP provider awaiting their answer
MaxPending == 2

\* quotes received on the bar path in one behaviour
MaxQuotes == 2

\* concurrent callers of one RateLimiter, each acquiring once
MaxAcquirers == 4

\* the last instant of the wall clock, in tenths of a second
MaxClock == 12

-----------------------------------------------------------------------------
(* Types and constants of the source *)

HEALTHY  == "healthy"
DEGRADED == "degraded"
DOWN     == "down"
UNKNOWN  == "unknown"
ProviderHealthStatus == {HEALTHY, DEGRADED, DOWN, UNKNOWN}

AllProviders == {"tradingview_ws", "tradingview_http", "finnhub", "yahoo"}

DATA_PRIORITY_INTRADAY == <<"tradingview_http", "yahoo">>
DATA_PRIORITY_DAILY    == <<"yahoo">>
INTRADAY_TIMEFRAMES    == {"1m", "5m", "15m", "1h"}

\* Finnhub retry policy
MAX_RETRIES == 3

RETRY_BASE_DELAY == 1

\* Streaming reconnect policy
RECONNECT_MAX_ATTEMPTS == 5

\* The callers of the manager (independent coroutines)
Calls == {"c1", "c2"}

\* The (timeframe, limit) arguments the callers use
RequestInputs == {<<"15m", 50>>, <<"1D", 100>>}

\* The provider sets a manager is constructed with
RegisteredChoices == {AllProviders, AllProviders \ {"yahoo"}}

Range(s) == {s[i] : i \in DOMAIN s}

Last(s) == s[Len(s)]

IsPrefix(s, t) == Len(s) <= Len(t) /\ SubSeq(t, 1, Len(s)) = s

-----------------------------------------------------------------------------
(* The providers as the manager sees them *)

\* What one get_ohlcv of a provider can come to.  A registered provider is any
\* BaseDataProvider: besides what the concrete class does with the transport's
\* answer, its get_ohlcv may raise NotImplementedError (the Unsupported signal)
\* or let another exception escape.
RawAnswers(p) ==
    CASE p = "tradingview_http" ->
            {"200", "200_empty", "401", "500", "timeout", "exception",
             "raise_unsupported", "raise_error"}
      [] p = "yahoo" ->
            {"ok", "empty", "exception", "raise_unsupported", "raise_error"}
      [] OTHER -> {"raise_unsupported"}

\* TradingViewHTTPProvider.get_snapshots + get_ohlcv: the outcome the manager
\* sees, the bars returned, and the provider's own state afterwards.
TradingViewHttpGetOhlcv(raw) ==
    CASE raw \in {"200", "200_empty"} ->
            [out |-> IF raw = "200" THEN "data" ELSE "empty",
             bars |-> IF raw = "200" THEN 1 ELSE 0,
             hs |-> HEALTHY, cf |-> 0]
      [] raw \in {"401", "500"} ->
            [out |-> "empty", bars |-> 0, hs |-> DEGRADED, cf |-> consecutive_failures + 1]
      [] raw = "timeout" ->
            [out |-> "empty", bars |-> 0, hs |-> DEGRADED, cf |-> consecutive_failures + 1]
      [] raw = "exception" ->
            [out |-> "empty", bars |-> 0, hs |-> DOWN, cf |-> consecutive_failures + 1]
      [] raw = "raise_unsupported" ->
            [out |-> "unsupported", bars |-> 0,
             hs |-> health_status["tradingview_http"], cf |-> consecutive_failures]
      [] OTHER ->
            [out |-> "error", bars |-> 0,
             hs |-> health_status["tradingview_http"], cf |-> consecutive_failures]

\* YahooProvider.get_ohlcv past the cache check: the executor's answer.
YahooGetOhlcv(raw, limit) ==
    CASE raw = "ok" ->
            [out |-> "data", bars |-> limit, hs |-> HEALTHY, cached |-> TRUE]
      [] raw = "empty" ->
            [out |-> "empty", bars |-> 0, hs |-> health_status["yahoo"], cached |-> FALSE]
      [] raw = "exception" ->
            [out |-> "empty", bars |-> 0, hs |-> DEGRADED, cached |-> FALSE]
      [] raw = "raise_unsupported" ->
            [out |-> "unsupported", bars |-> 0, hs |-> health_status["yahoo"], cached |-> FALSE]
      [] OTHER ->
            [out |-> "error", bars |-> 0, hs |-> health_status["yahoo"], cached |-> FALSE]

\* A faulty get_health: the recorded status, whatever the failures
GetHealthRecordedOnly(p) == health_status[p]

\* get_health() of each provider class
GetHealth(p) ==
    CASE p = "tradingview_http" ->
            IF consecutive_failures >= 5 THEN DOWN
            ELSE IF consecutive_failures >= 2 THEN DEGRADED
            ELSE health_status[p]
      [] p = "tradingview_ws" ->
            IF ~is_connected THEN DOWN ELSE health_status[p]
      [] OTHER -> health_status[p]

-----------------------------------------------------------------------------
(* ProviderManager *)

_is_intraday(timeframe) == timeframe \in INTRADAY_TIMEFRAMES

PriorityList(timeframe) ==
    IF _is_intraday(timeframe) THEN DATA_PRIORITY_INTRADAY ELSE DATA_PRIORITY_DAILY

\* A faulty filter: health is not looked at
AvailableWithDown(name) ==
    name \in providers

Available(name) ==
    name \in providers /\ health[name] \in {HEALTHY, DEGRADED, UNKNOWN}

RECURSIVE _get_available_providers(_)
_get_available_providers(priority_list) ==
    IF priority_list = <<>> THEN <<>>
    ELSE LET name == Head(priority_list)
             rest == _get_available_providers(Tail(priority_list))
         IN  IF Available(name) THEN <<name>> \o rest ELSE rest

\* A caller's get_ohlcv: pc is "idle" (no call), "await" (suspended in the
\* get_ohlcv of available_providers[idx]) or "done" (returned df, a number of
\* bars, 0 for the empty DataFrame; source is the provider it came from).
\* contacted logs the providers whose get_ohlcv this call has invoked, outcomes
\* what each of them came to ("data", "empty", "unsupported", "error").
IdleCall ==
    [pc |-> "idle", timeframe |-> "1D", limit |-> 0, available_providers |-> <<>>,
     idx |-> 0, contacted |-> <<>>, outcomes |-> <<>>, df |-> 0, source |-> "none"]

\* One provider's get_ohlcv as the manager's await sees it
ProviderGetOhlcv(p, raw, limit) ==
    IF p = "tradingview_http"
    THEN LET r == TradingViewHttpGetOhlcv(raw)
         IN  [out |-> r.out, bars |-> r.bars, hs |-> r.hs, cf |-> r.cf, cached |-> FALSE]
    ELSE LET r == YahooGetOhlcv(raw, limit)
         IN  [out |-> r.out, bars |-> r.bars, hs |-> r.hs,
              cf |-> consecutive_failures, cached |-> r.cached]

\* A faulty exit: the last error escapes to the caller
ExhaustedRaises(call) ==
    [call EXCEPT !.pc = "raised"]

\* The empty DataFrame returned when there is no candidate (left)
Exhausted(call) ==
    [call EXCEPT !.pc = "done", !.df = 0, !.source = "none"]

\* The success branch: the call returns the provider's DataFrame
OnSuccess(call, p, bars) ==
    [call EXCEPT !.pc = "done", !.df = bars, !.source = p,
                 !.outcomes = Append(@, "data")]

\* A faulty loop: the candidates are taken from the end of the list
TryFromReversed(call, st, i) ==
    IF i > Len(call.available_providers)
    THEN [call |-> Exhausted(call), stats |-> st]
    ELSE LET name == call.available_providers[Len(call.available_providers) - i + 1]
         IN  [call |-> [call EXCEPT !.idx = i, !.contacted = Append(@, name),
                                    !.pc = "await"],
              stats |-> st]

\* The loop `for provider_name in available_providers` from candidate i to the
\* next suspension: the await of candidate i's get_ohlcv, or the return.  A
\* valid cache entry makes YahooProvider.get_ohlcv return without suspending.
TryFrom(call, st, i) ==
    IF i > Len(call.available_providers)
    THEN [call |-> Exhausted(call), stats |-> st]
    ELSE LET name == call.available_providers[i]
             invoked == [call EXCEPT !.idx = i, !.contacted = Append(@, name)]
         IN  IF name = "yahoo" /\ yahoo_cache[<<call.timeframe, call.limit>>]
             THEN [call |-> OnSuccess(invoked, name, call.limit),
                   stats |-> [st EXCEPT !.successful_requests = @ + 1]]
             ELSE [call |-> [invoked EXCEPT !.pc = "await"], stats |-> st]

\* A faulty handler: Unsupported counted as a provider failure
OnUnsupportedPenalised(st, name) ==
    [st EXCEPT !.provider_failures[name] = @ + 1, !.failover_count = @ + 1]

\* except NotImplementedError
OnUnsupported(st, name) ==
    [st EXCEPT !.failover_count = @ + 1]

\* A faulty handler: the provider's failure is not counted
OnErrorUncounted(st, name) ==
    [st EXCEPT !.failover_count = @ + 1]

\* A faulty handler: the provider's failure is taken off its count
OnErrorDecrements(st, name) ==
    [st EXCEPT !.provider_failures[name] = @ - 1, !.failover_count = @ + 1]

\* except Exception: the statistics
OnError(st, name) ==
    [st EXCEPT !.provider_failures[name] = @ + 1, !.failover_count = @ + 1]

\* A faulty handler: a failure takes the provider Down
HealthOnErrorDown(name) ==
    [health EXCEPT ![name] = DOWN]

\* except Exception: the health map
HealthOnError(name) ==
    [health EXCEPT ![name] = DEGRADED]

\* get_ohlcv up to its first suspension
GetOhlcvStart(c, req) ==
    /\ calls[c].pc = "idle"
    /\ stats.total_requests < MaxRequests
    /\ LET st == [stats EXCEPT !.total_requests = @ + 1]
           call == [IdleCall EXCEPT
                      !.timeframe = req[1], !.limit = req[2],
                      !.available_providers =
                          _get_available_providers(PriorityList(req[1]))]
           r == TryFrom(call, st, 1)
       IN  /\ calls' = [calls EXCEPT ![c] = r.call]
           /\ stats' = r.stats
    /\ UNCHANGED <<providers, health, auth_failed, health_status,
                   consecutive_failures, yahoo_cache, finnhub_req>>

\* The awaited provider answers: the provider's own bookkeeping, then the
\* manager's classification, then the loop up to the next suspension.
ProviderAnswers(c, raw) ==
    /\ calls[c].pc = "await"
    /\ LET call == calls[c]
           name == call.available_providers[call.idx]
       IN  /\ raw \in RawAnswers(name)
           /\ LET a == ProviderGetOhlcv(name, raw, call.limit)
                  logged == [call EXCEPT !.outcomes = Append(@, a.out)]
                  r == CASE a.out = "data" ->
                              [call |-> OnSuccess(call, name, a.bars),
                               stats |-> [stats EXCEPT !.successful_requests = @ + 1]]
                         [] a.out = "empty" -> TryFrom(logged, stats, call.idx + 1)
                         [] a.out = "unsupported" ->
                              TryFrom(logged, OnUnsupported(stats, name), call.idx + 1)
                         [] OTHER ->
                              TryFrom(logged, OnError(stats, name), call.idx + 1)
              IN  /\ health_status' = [health_status EXCEPT ![name] = a.hs]
                  /\ consecutive_failures' = a.cf
                  /\ yahoo_cache' =
                        IF a.cached
                        THEN [yahoo_cache EXCEPT ![<<call.timeframe, call.limit>>] = TRUE]
                        ELSE yahoo_cache
                  /\ auth_failed' =
                        IF raw = "401" THEN auth_failed \cup {name} ELSE auth_failed
                  /\ health' = IF a.out = "error" THEN HealthOnError(name) ELSE health
                  /\ calls' = [calls EXCEPT ![c] = r.call]
                  /\ stats' = r.stats
    /\ UNCHANGED <<providers, finnhub_req>>

\* The caller takes the returned DataFrame
CallReturn(c) ==
    /\ calls[c].pc = "done"
    /\ calls' = [calls EXCEPT ![c] = IdleCall]
    /\ UNCHANGED <<providers, health, stats, auth_failed, health_status,
                   consecutive_failures, yahoo_cache, finnhub_req>>

\* update_health(name): the health refresh
UpdateHealth(name) ==
    /\ name \in providers
    /\ health' = [health EXCEPT ![name] = GetHealth(name)]
    /\ auth_failed' = auth_failed \ {name}
    /\ UNCHANGED <<providers, stats, calls, health_status,
                   consecutive_failures, yahoo_cache, finnhub_req>>

\* A cache entry of YahooProvider gets older than _cache_duration
YahooCacheExpire(key) ==
    /\ yahoo_cache[key]
    /\ yahoo_cache' = [yahoo_cache EXCEPT ![key] = FALSE]
    /\ UNCHANGED <<providers, health, stats, calls, auth_failed, health_status,
                   consecutive_failures, finnhub_req>>

-----------------------------------------------------------------------------
(* FinnhubProvider: not in a priority list; reached through its own methods *)

FinnhubStatuses == {"200", "200_nodata", "429", "401", "403", "500", "timeout", "exception"}

\* A faulty _request: one retry more than MAX_RETRIES
FinnhubRequestRetriesOnceMore(status, retry_count) ==
    LET hs == health_status["finnhub"]
        again == retry_count <= MAX_RETRIES
        delay == IF again THEN RETRY_BASE_DELAY * (2 ^ retry_count) ELSE 0
    IN  CASE status \in {"200", "200_nodata"} ->
                [again |-> FALSE, delay |-> 0, data |-> status, hs |-> HEALTHY]
          [] status = "429" ->
                [again |-> again, delay |-> delay, data |-> "none",
                 hs |-> IF again THEN hs ELSE DEGRADED]
          [] status = "401" -> [again |-> FALSE, delay |-> 0, data |-> "none", hs |-> DOWN]
          [] status = "403" -> [again |-> FALSE, delay |-> 0, data |-> "none", hs |-> DEGRADED]
          [] status = "timeout" ->
                [again |-> again, delay |-> delay, data |-> "none", hs |-> DEGRADED]
          [] OTHER -> [again |-> again, delay |-> delay, data |-> "none", hs |-> hs]

\* _request on one HTTP answer: retry in place (again) after the delay, or
\* return
FinnhubRequest(status, retry_count) ==
    LET hs == health_status["finnhub"]
        again == retry_count < MAX_RETRIES
        delay == IF again THEN RETRY_BASE_DELAY * (2 ^ retry_count) ELSE 0
    IN  CASE status \in {"200", "200_nodata"} ->
                [again |-> FALSE, delay |-> 0, data |-> status, hs |-> HEALTHY]
          [] status = "429" ->
                [again |-> again, delay |-> delay, data |-> "none",
                 hs |-> IF again THEN hs ELSE DEGRADED]
          [] status = "401" -> [again |-> FALSE, delay |-> 0, data |-> "none", hs |-> DOWN]
          [] status = "403" -> [again |-> FALSE, delay |-> 0, data |-> "none", hs |-> DEGRADED]
          [] status = "timeout" ->
                [again |-> again, delay |-> delay, data |-> "none", hs |-> DEGRADED]
          [] OTHER -> [again |-> again, delay |-> delay, data |-> "none", hs |-> hs]

\* check_health after its _request returned
FinnhubCheckHealth(data, hs) ==
    IF data = "200" THEN HEALTHY ELSE DEGRADED

\* No request made yet
IdleFinnhub ==
    [op |-> "none", retry_count |-> 0, attempts |-> 0, slept |-> <<>>,
     last_status |-> "none", result |-> "none"]

\* get_ohlcv or check_health (connect) of the Finnhub provider starts a request
FinnhubCall(op) ==
    /\ finnhub_req.op = "none"
    /\ finnhub_req' = [IdleFinnhub EXCEPT !.op = op, !.result = "pending"]
    /\ UNCHANGED <<providers, health, stats, calls, auth_failed, health_status,
                   consecutive_failures, yahoo_cache>>

\* One HTTP attempt of the request in progress is answered: _request retries
\* in place after its sleep, or returns to the operation
FinnhubResponse(status) ==
    /\ finnhub_req.op # "none"
    /\ LET r == FinnhubRequest(status, finnhub_req.retry_count)
       IN  /\ finnhub_req' =
                 IF r.again
                 THEN [finnhub_req EXCEPT !.retry_count = @ + 1,
                                          !.attempts = @ + 1,
                                          !.slept = Append(@, r.delay),
                                          !.last_status = status]
                 ELSE [finnhub_req EXCEPT !.op = "none",
                                          !.attempts = @ + 1,
                                          !.last_status = status,
                                          !.result = r.data]
           /\ health_status' =
                 [health_status EXCEPT !["finnhub"] =
                    IF ~r.again /\ finnhub_req.op = "check_health"
                    THEN FinnhubCheckHealth(r.data, r.hs)
                    ELSE r.hs]
           /\ auth_failed' =
                 IF status = "401" THEN auth_failed \cup {"finnhub"} ELSE auth_failed
    /\ UNCHANGED <<providers, health, stats, calls, consecutive_failures, yahoo_cache>>

-----------------------------------------------------------------------------
(* The manager's specification *)

\* The manager after __init__ with the given providers registered, and the
\* providers after theirs
ConstructedMgr(registered) ==
    /\ providers = registered
    /\ health = [name \in providers |-> UNKNOWN]
    /\ stats = [total_requests |-> 0, successful_requests |-> 0, failover_count |-> 0,
                provider_failures |-> [name \in providers |-> 0]]
    /\ calls = [c \in Calls |-> IdleCall]
    /\ auth_failed = {}
    /\ health_status = [p \in AllProviders |-> IF p = "yahoo" THEN HEALTHY ELSE UNKNOWN]
    /\ consecutive_failures = 0
    /\ yahoo_cache = [key \in RequestInputs |-> FALSE]
    /\ finnhub_req = IdleFinnhub

InitMgr == \E registered \in RegisteredChoices : ConstructedMgr(registered)

\* The streaming provider and the aggregator stay as they are
MgrFrame ==
    UNCHANGED <<wsVars, ws_ohlcv, aggVars, rlVars, ohlcv, backoff, codec, http_req, bar_path>>

NextMgr ==
    \/ \E c \in Calls, req \in RequestInputs : GetOhlcvStart(c, req) /\ MgrFrame
    \/ \E c \in Calls, raw \in RawAnswers("tradingview_http") \cup RawAnswers("yahoo") :
          ProviderAnswers(c, raw) /\ MgrFrame
    \/ \E c \in Calls : CallReturn(c) /\ MgrFrame
    \/ \E name \in AllProviders : UpdateHealth(name) /\ MgrFrame
    \/ \E key \in RequestInputs : YahooCacheExpire(key) /\ MgrFrame

\* Finnhub on its own: its requests, and the manager's refresh of its entry
NextFinnhub ==
    \/ \E op \in {"get_ohlcv", "check_health"} : FinnhubCall(op) /\ MgrFrame
    \/ \E status \in FinnhubStatuses : FinnhubResponse(status) /\ MgrFrame
    \/ UpdateHealth("finnhub") /\ MgrFrame

-----------------------------------------------------------------------------
(* Properties of FinnhubProvider (under SpecFinnhub, SpecFinnhubLive) *)

FinnhubRetried == {"429", "500", "timeout", "exception"}

\* The attempts of a request stay within MAX_RETRIES + 1, and the sleep before
\* retry i + 1 is RETRY_BASE_DELAY * 2^i
FinnhubAttemptsBounded ==
    /\ finnhub_req.attempts <= MAX_RETRIES + 1
    /\ Len(finnhub_req.slept) = finnhub_req.retry_count
    /\ \A i \in DOMAIN finnhub_req.slept :
          finnhub_req.slept[i] = RETRY_BASE_DELAY * (2 ^ (i - 1))

\* A request still in progress has only seen answers that are retried, and
\* has slept after each
FinnhubRetriesInPlace ==
    (finnhub_req.op # "none" /\ finnhub_req.attempts > 0) =>
        /\ finnhub_req.last_status \in FinnhubRetried
        /\ finnhub_req.attempts = finnhub_req.retry_count

\* A request that returned after a 401 or a 403, or after an answer that is
\* retried, returned None; after an answer that is retried it had used up
\* its retries; after a last 429 the health is Degraded
FinnhubExhaustedReturnsNone ==
    (finnhub_req.op = "none" /\ finnhub_req.attempts > 0) =>
        /\ finnhub_req.last_status \in FinnhubRetried \cup {"401", "403"} =>
              finnhub_req.result = "none"
        /\ finnhub_req.last_status \in FinnhubRetried =>
              finnhub_req.attempts = MAX_RETRIES + 1
        /\ finnhub_req.last_status = "429" => health_status["finnhub"] = DEGRADED

\* C29: _request always terminates, after at most MAX_RETRIES + 1 = 4 HTTP
\* attempts: a 429, another non-200 status, a timeout or an exception is
\* retried in place after RETRY_BASE_DELAY * 2^retry_count seconds, a 401 or
\* a 403 is never retried, and with the retries used up the result is None,
\* the health being Degraded after a last 429.
C29_RequestTerminates ==
    /\ [](FinnhubAttemptsBounded /\ FinnhubRetriesInPlace
            /\ FinnhubExhaustedReturnsNone)
    /\ (finnhub_req.op # "none") ~> (finnhub_req.op = "none")

\* C29 witness: a request returned None after four attempts that all got a
\* 429, having slept 1, 2 and 4 seconds, and the health is Degraded
C29_Witness ==
    /\ finnhub_req.op = "none"
    /\ finnhub_req.attempts = MAX_RETRIES + 1
    /\ finnhub_req.last_status = "429"
    /\ finnhub_req.slept = <<1, 2, 4>>
    /\ finnhub_req.result = "none"
    /\ health_status["finnhub"] = DEGRADED

\* The last request of the Finnhub provider has returned
FinnhubReturned == finnhub_req.op = "none" /\ finnhub_req.attempts > 0

\* C30: after a successful call the provider's own health is Healthy, and
\* after a failed call it is Degraded or Down, never still Healthy; here for
\* the Finnhub provider, whose call succeeds with the data of a 200 and fails
\* when _request returns None.
C30_OwnHealthFollowsOutcome ==
    FinnhubReturned =>
        /\ finnhub_req.result = "200" => health_status["finnhub"] = HEALTHY
        /\ finnhub_req.result = "none" =>
              health_status["finnhub"] \in {DEGRADED, DOWN}

-----------------------------------------------------------------------------
(* Properties of ProviderManager.get_ohlcv (under SpecMgr) *)

TV == "tradingview_http"

\* Caller c's get_ohlcv starts in this step
Starts(c) == calls[c].pc = "idle" /\ calls'[c].pc # "idle"

\* In this step the provider caller c awaits answers with outcome out
Answers(c, out) ==
    /\ calls[c].pc = "await"
    /\ Len(calls'[c].outcomes) > Len(calls[c].outcomes)
    /\ calls'[c].outcomes[Len(calls[c].outcomes) + 1] = out

\* The provider caller c awaits
Awaited(c) == calls[c].available_providers[calls[c].idx]

\* After candidate idx, the call has gone on to the next candidate, or has
\* returned the empty result when there is none
GoesOn(c) ==
    LET i == calls[c].idx
        avail == calls[c].available_providers
    IN  IF i < Len(avail)
        THEN /\ Len(calls'[c].contacted) = i + 1
             /\ calls'[c].contacted[i + 1] = avail[i + 1]
        ELSE /\ calls'[c].pc = "done"
             /\ calls'[c].df = 0
             /\ calls'[c].contacted = calls[c].contacted

\* C1: within one get_ohlcv call the candidates are contacted one at a time in
\* priority-list order: the providers contacted so far are a prefix of the
\* candidate list, the call is suspended in the last of them only; a non-empty
\* result ends the call with that result, and it comes from the last provider
\* contacted, so no candidate after it was contacted.
C1_InOrderFirstSuccess ==
    \A c \in Calls :
        LET call == calls[c]
        IN  /\ IsPrefix(call.contacted, call.available_providers)
            /\ call.pc = "await" =>
                  /\ call.idx = Len(call.contacted)
                  /\ Len(call.outcomes) = Len(call.contacted) - 1
            /\ \A k \in 1..Len(call.outcomes) :
                  call.outcomes[k] = "data" =>
                      /\ k = Len(call.contacted)
                      /\ call.pc = "done"
                      /\ call.df > 0
                      /\ call.source = call.contacted[k]
            /\ call.df > 0 => call.pc = "done" /\ Last(call.outcomes) = "data"

\* C1 witness: the first of two candidates returned bars and ended the call;
\* the second was not contacted
C1_Witness ==
    \E c \in Calls :
        /\ calls[c].pc = "done"
        /\ calls[c].available_providers = <<TV, "yahoo">>
        /\ calls[c].contacted = <<TV>>
        /\ calls[c].df = 1
        /\ calls[c].source = TV

\* C2: the candidates of a call are exactly the registered providers of the
\* category's priority list whose health in the manager's map, when the call
\* starts, is Healthy, Degraded or Unknown, in list order; a provider that is
\* Down then is not invoked by that call, and a call only ever invokes its
\* candidates.
C2_DownSkipped ==
    [][\A c \in Calls :
          /\ Starts(c) =>
                LET call == calls'[c]
                    priority_list == IF call.timeframe \in INTRADAY_TIMEFRAMES
                                     THEN DATA_PRIORITY_INTRADAY
                                     ELSE DATA_PRIORITY_DAILY
                IN  /\ call.available_providers =
                          SelectSeq(priority_list,
                                    LAMBDA n : n \in providers /\ health[n] # DOWN)
                    /\ \A n \in Range(call.contacted) : health[n] # DOWN
          /\ calls'[c].pc # "idle" =>
                /\ Range(calls'[c].contacted) \subseteq Range(calls'[c].available_providers)
                /\ ~Starts(c) =>
                      calls'[c].available_providers = calls[c].available_providers
      ]_vars

\* C2 witness: an intraday call that started while the first provider of the
\* list was Down has the second as its only candidate and has invoked it
C2_Witness ==
    \E c \in Calls :
        /\ providers = AllProviders
        /\ health[TV] = DOWN
        /\ calls[c].timeframe = "15m"
        /\ calls[c].available_providers = <<"yahoo">>
        /\ calls[c].contacted = <<"yahoo">>

\* C3: when the awaited candidate answers Unsupported, failover_count grows by
\* exactly 1, the provider's health-map entry, its own status and every
\* provider_failures count stay as they were, and the call goes on to the next
\* candidate.
C3_UnsupportedIsolation ==
    [][\A c \in Calls :
          Answers(c, "unsupported") =>
              /\ stats'.failover_count = stats.failover_count + 1
              /\ stats'.provider_failures = stats.provider_failures
              /\ health' = health
              /\ health_status'[Awaited(c)] = health_status[Awaited(c)]
              /\ GoesOn(c)
      ]_vars

\* C3 witness: A Unsupported, B returned 50 bars for ("15m", 50): 50 bars,
\* failover_count 1, A's health still Unknown
C3_Witness ==
    \E c \in Calls :
        /\ calls[c].pc = "done"
        /\ calls[c].timeframe = "15m"
        /\ calls[c].contacted = <<TV, "yahoo">>
        /\ calls[c].outcomes = <<"unsupported", "data">>
        /\ calls[c].df = 50
        /\ stats.failover_count = 1
        /\ stats.provider_failures[TV] = 0
        /\ health[TV] = UNKNOWN

\* C4: when the awaited candidate fails with another exception, its
\* provider_failures count and failover_count each grow by 1, nobody else's
\* count changes, its health-map entry is Degraded, and the call goes on to
\* the next candidate.
C4_ErrorDegrades ==
    [][\A c \in Calls :
          Answers(c, "error") =>
              /\ stats'.failover_count = stats.failover_count + 1
              /\ stats'.provider_failures =
                    [stats.provider_failures EXCEPT ![Awaited(c)] = @ + 1]
              /\ health' = [health EXCEPT ![Awaited(c)] = DEGRADED]
              /\ GoesOn(c)
      ]_vars

\* C4 witness: priority [A (raises), B (returns the bars asked for)]: B's bars
\* are returned with failover_count 1 and provider_failures[A] 1
C4_Witness ==
    \E c \in Calls :
        /\ calls[c].pc = "done"
        /\ calls[c].contacted = <<TV, "yahoo">>
        /\ calls[c].outcomes = <<"error", "data">>
        /\ calls[c].df = calls[c].limit
        /\ calls[c].source = "yahoo"
        /\ stats.failover_count = 1
        /\ stats.provider_failures[TV] = 1
        /\ health[TV] = DEGRADED

\* C5: get_ohlcv never raises: a call is running or has returned, and once
\* every candidate has answered without data (or there was no candidate) it
\* has returned the empty result; it returns the empty result only then.
C5_NeverRaises ==
    \A c \in Calls :
        LET call == calls[c]
        IN  /\ call.pc \in {"idle", "await", "done"}
            /\ ( /\ call.pc # "idle"
                 /\ Len(call.outcomes) = Len(call.available_providers)
                 /\ "data" \notin Range(call.outcomes) )
                  => (call.pc = "done" /\ call.df = 0)
            /\ (call.pc = "done" /\ call.df = 0) =>
                  /\ Len(call.outcomes) = Len(call.available_providers)
                  /\ Range(call.outcomes) \subseteq {"empty", "unsupported", "error"}

\* C5 witness: one call found no candidate, another had its only candidate
\* fail; both returned the empty result
C5_Witness ==
    /\ calls["c1"].pc = "done"
    /\ calls["c1"].available_providers = <<>>
    /\ calls["c1"].df = 0
    /\ calls["c2"].pc = "done"
    /\ calls["c2"].outcomes = <<"error">>
    /\ calls["c2"].df = 0

\* C6: when a provider whose health-map entry is Degraded returns a non-empty
\* result to a get_ohlcv call, its entry is Healthy after that step.
C6_SuccessResetsHealth ==
    [][\A c \in Calls :
          ( /\ calls[c].pc # "done"
            /\ calls'[c].pc = "done"
            /\ calls'[c].df > 0
            /\ health[calls'[c].source] = DEGRADED )
              => health'[calls'[c].source] = HEALTHY
      ]_vars

\* C7: no step of a get_ohlcv call sets an entry of the manager's health map
\* to Down, and a provider whose failure the call logs is Degraded afterwards.
C7_NeverDownByFailover ==
    [][\A c \in Calls :
          calls'[c] # calls[c] =>
              /\ \A n \in providers : health'[n] = DOWN => health[n] = DOWN
              /\ Answers(c, "error") => health'[Awaited(c)] = DEGRADED
      ]_vars

\* C7 witness: a provider has failed twice on this path and is Degraded
C7_Witness ==
    /\ providers = AllProviders
    /\ stats.provider_failures[TV] >= 2
    /\ health[TV] = DEGRADED

CallStarts == \E c \in Calls : calls[c].pc = "idle" /\ calls'[c].pc # "idle"

\* C31: the FailoverStats counters never decrease, total_requests grows by one
\* exactly where a get_ohlcv call starts (so it equals the number of calls
\* started), and successful_requests never exceeds total_requests.
C31_StatsAppendOnly ==
    [][ /\ stats'.total_requests =
              IF CallStarts THEN stats.total_requests + 1 ELSE stats.total_requests
        /\ stats'.successful_requests >= stats.successful_requests
        /\ stats'.failover_count >= stats.failover_count
        /\ \A name \in providers :
              stats'.provider_failures[name] >= stats.provider_failures[name]
        /\ stats'.successful_requests <= stats'.total_requests ]_vars

\* C31 witness: two calls were started, one has succeeded after a failover
\* that counted a provider's failure
C31_Witness ==
    /\ stats.total_requests = 2
    /\ stats.successful_requests = 1
    /\ stats.failover_count >= 1
    /\ \E name \in providers : stats.provider_failures[name] >= 1

\* C8: a provider that answered 401 is Down from that moment, and is no
\* candidate of any get_ohlcv call, until a health refresh of it.
C8_AuthFailureIsDown ==
    \A p \in auth_failed :
        /\ health_status[p] = DOWN
        /\ \A req \in RequestInputs :
              p \notin Range(_get_available_providers(PriorityList(req[1])))

-----------------------------------------------------------------------------
(* TradingViewWebSocketProvider: connection, receive loop, reconnect *)

\* One task of each kind is created per successful connect
TaskIds == 1..MaxSockets

WsName == "tradingview_ws"

\* The provider's fields as one record, so that the methods compose
WsState ==
    [ws |-> ws, is_connected |-> is_connected,
     reconnect_attempts |-> reconnect_attempts,
     last_message_age |-> last_message_age,
     receive_task |-> receive_task, health_monitor_task |-> health_monitor_task,
     recv_loops |-> recv_loops, monitor_loops |-> monitor_loops,
     open_socks |-> open_socks, sockets_created |-> sockets_created,
     disconnect_callbacks |-> disconnect_callbacks,
     failed_reconnects |-> failed_reconnects,
     session_id |-> session_id, subscribed_symbols |-> subscribed_symbols,
     bar_aggregators |-> bar_aggregators, streams |-> streams, sent |-> sent,
     heartbeats |-> heartbeats, timed_out |-> 0,
     hs |-> health_status[WsName]]

SetWsState(s) ==
    /\ ws' = s.ws
    /\ is_connected' = s.is_connected
    /\ reconnect_attempts' = s.reconnect_attempts
    /\ last_message_age' = s.last_message_age
    /\ receive_task' = s.receive_task
    /\ health_monitor_task' = s.health_monitor_task
    /\ recv_loops' = s.recv_loops
    /\ monitor_loops' = s.monitor_loops
    /\ open_socks' = s.open_socks
    /\ sockets_created' = s.sockets_created
    /\ disconnect_callbacks' = s.disconnect_callbacks
    /\ failed_reconnects' = s.failed_reconnects
    /\ session_id' = s.session_id
    /\ subscribed_symbols' = s.subscribed_symbols
    /\ bar_aggregators' = s.bar_aggregators
    /\ streams' = s.streams
    /\ sent' = s.sent
    /\ heartbeats' = s.heartbeats
    /\ timed_out' = s.timed_out
    /\ health_status' = [health_status EXCEPT ![WsName] = s.hs]
    /\ UNCHANGED <<on_disconnect_callback, ws_ohlcv>>

\* The symbols streamed, the get_realtime_stream calls and their arguments
StreamSymbols == {"THYAO", "GARAN"}

Streams == {"s1"}

StreamInputs == {<<<<"THYAO">>, "1m">>, <<<<"GARAN", "THYAO">>, "5m">>}

NoStream == [pc |-> "none", symbols |-> <<>>, timeframe |-> "none"]

\* generate_session_id("qs_"): a fresh random id at every connect
SessionIds == <<"qs_a", "qs_b", "qs_c", "qs_d">>

generate_session_id(n) == SessionIds[n]

\* A frame is the sequence of its parts.  create_message: the length header,
\* then the JSON of the function name and the parameters
create_message(func, params) == <<"~m~len~m~", func>> \o params

\* The frames the server sends: a heartbeat, a heartbeat in one buffer with a
\* quote message, and a quote message
HeartbeatFrame == <<"~m~4~m~", "~h~", "1">>

HeartbeatAndQuoteFrame == <<"~m~4~m~", "~h~", "2", "~m~len~m~", "qsd">>

QuoteFrame == <<"~m~len~m~", "qsd">>

Frames == {HeartbeatFrame, HeartbeatAndQuoteFrame, QuoteFrame}

\* "~h~" in message
ContainsHeartbeat(frame) == \E i \in DOMAIN frame : frame[i] = "~h~"

\* convert_symbol_to_provider_format(symbol, "tradingview")
tv_symbol(symbol) ==
    CASE symbol = "THYAO" -> "BIST:THYAO"
      [] symbol = "GARAN" -> "BIST:GARAN"
      [] OTHER -> symbol

\* self._ws.send(frame) goes through when the socket in use is open
CanSend(s) == s.ws # 0 /\ s.ws \in s.open_socks

\* dict operations on _subscribed_symbols, which keeps insertion order
InDict(d, symbol) == \E i \in DOMAIN d : d[i].symbol = symbol

DictSet(d, symbol, timeframe) ==
    IF InDict(d, symbol)
    THEN [i \in DOMAIN d |->
            IF d[i].symbol = symbol
            THEN [symbol |-> symbol, timeframe |-> timeframe] ELSE d[i]]
    ELSE Append(d, [symbol |-> symbol, timeframe |-> timeframe])

DictPop(d, symbol) == SelectSeq(d, LAMBDA e : e.symbol # symbol)

\* A faulty handshake: the session is created before the token is sent
_send_initial_messagesSessionFirst(s) ==
    IF s.ws = 0 \/ s.session_id = "none" \/ ~CanSend(s) THEN s
    ELSE [s EXCEPT !.sent[s.ws] = @ \o
            << create_message("quote_create_session", <<s.session_id>>),
               create_message("set_auth_token", <<"unauthorized_user_token">>),
               create_message("quote_set_fields", <<s.session_id, "QUOTE_FIELDS">>) >>]

\* _send_initial_messages: the three sends; a send that raises is swallowed
_send_initial_messages(s) ==
    IF s.ws = 0 \/ s.session_id = "none" \/ ~CanSend(s) THEN s
    ELSE [s EXCEPT !.sent[s.ws] = @ \o
            << create_message("set_auth_token", <<"unauthorized_user_token">>),
               create_message("quote_create_session", <<s.session_id>>),
               create_message("quote_set_fields", <<s.session_id, "QUOTE_FIELDS">>) >>]

\* _subscribe_symbol: nothing without a connection; a send that raises is
\* swallowed and leaves the dictionaries as they were
_subscribe_symbol(s, symbol, timeframe) ==
    IF s.ws = 0 \/ ~s.is_connected \/ ~CanSend(s) THEN s
    ELSE [s EXCEPT
            !.sent[s.ws] = @ \o
               << create_message("quote_add_symbols", <<s.session_id, tv_symbol(symbol)>>),
                  create_message("quote_fast_symbols", <<s.session_id, tv_symbol(symbol)>>) >>,
            !.subscribed_symbols = DictSet(@, symbol, timeframe),
            !.bar_aggregators[symbol] = timeframe]

\* _unsubscribe_symbol
_unsubscribe_symbol(s, symbol) ==
    IF s.ws = 0 \/ ~s.is_connected \/ ~CanSend(s) THEN s
    ELSE [s EXCEPT
            !.sent[s.ws] = Append(@,
                create_message("quote_remove_symbols", <<s.session_id, tv_symbol(symbol)>>)),
            !.subscribed_symbols = DictPop(@, symbol),
            !.bar_aggregators[symbol] = "none"]

\* get_realtime_stream, lines 645-647: the symbols not yet subscribed
RECURSIVE SubscribeAll(_, _, _)
SubscribeAll(s, symbols, timeframe) ==
    IF symbols = <<>> THEN s
    ELSE SubscribeAll(IF InDict(s.subscribed_symbols, Head(symbols)) THEN s
                      ELSE _subscribe_symbol(s, Head(symbols), timeframe),
                      Tail(symbols), timeframe)

\* get_realtime_stream, lines 676-677
RECURSIVE UnsubscribeAll(_, _)
UnsubscribeAll(s, symbols) ==
    IF symbols = <<>> THEN s
    ELSE UnsubscribeAll(_unsubscribe_symbol(s, Head(symbols)), Tail(symbols))

\* A faulty resubscription: the subscriptions are cleared and not renewed
ResubscribeForgets(s, items) == s

\* _reconnect, lines 444-445: each former subscription is subscribed again
RECURSIVE Resubscribe(_, _)
Resubscribe(s, items) ==
    IF items = <<>> THEN s
    ELSE Resubscribe(_subscribe_symbol(s, Head(items).symbol, Head(items).timeframe),
                     Tail(items))

\* A faulty connect(): the attempt counter is left as it is
ConnectSucceedsKeepsAttempts(s, alive) ==
    LET n == s.sockets_created + 1
    IN  [_send_initial_messages(
            [s EXCEPT !.ws = n, !.sockets_created = n,
                      !.open_socks = IF alive THEN @ \cup {n} ELSE @,
                      !.session_id = generate_session_id(n),
                      !.is_connected = TRUE,
                      !.last_message_age = "fresh", !.hs = HEALTHY])
         EXCEPT !.receive_task = n, !.health_monitor_task = n,
                !.recv_loops[n] = [pc |-> "start", sock |-> 0],
                !.monitor_loops[n] = "start",
                !.failed_reconnects = 0]

\* connect(): websockets.connect returned a socket.  The three handshake sends
\* of _send_initial_messages follow in the same step (their errors are
\* swallowed), then the two tasks are created.  alive: the socket is still
\* open when the handshake is sent; the peer may have closed it by then, and
\* the sends raise.
ConnectSucceeds(s, alive) ==
    LET n == s.sockets_created + 1
    IN  [_send_initial_messages(
            [s EXCEPT !.ws = n, !.sockets_created = n,
                      !.open_socks = IF alive THEN @ \cup {n} ELSE @,
                      !.session_id = generate_session_id(n),
                      !.is_connected = TRUE, !.reconnect_attempts = 0,
                      !.last_message_age = "fresh", !.hs = HEALTHY])
         EXCEPT !.receive_task = n, !.health_monitor_task = n,
                !.recv_loops[n] = [pc |-> "start", sock |-> 0],
                !.monitor_loops[n] = "start",
                !.failed_reconnects = 0]

\* connect(): websockets.connect raised
ConnectFails(s) ==
    [s EXCEPT !.hs = DOWN, !.is_connected = FALSE]

\* _reconnect() in task t, up to its sleep or its return
_reconnect(s, t) ==
    IF s.reconnect_attempts >= RECONNECT_MAX_ATTEMPTS
    THEN [s EXCEPT !.hs = DOWN,
                   !.disconnect_callbacks = IF on_disconnect_callback THEN @ + 1 ELSE @,
                   !.recv_loops[t].pc = "done"]
    ELSE [s EXCEPT !.reconnect_attempts = @ + 1, !.hs = DEGRADED,
                   !.recv_loops[t].pc = "reconnecting"]

\* _receive_loop in task t at `while self._is_connected and self._ws`, up to
\* the recv it suspends in.  The library refuses a second recv on a socket
\* another task is already waiting on; the error takes the `except Exception`
\* exit of the loop.
LoopTop(s, t) ==
    IF s.is_connected /\ s.ws # 0
    THEN IF \E u \in TaskIds \ {t} :
               s.recv_loops[u].pc = "recv" /\ s.recv_loops[u].sock = s.ws
         THEN _reconnect([s EXCEPT !.is_connected = FALSE], t)
         ELSE [s EXCEPT !.recv_loops[t] = [pc |-> "recv", sock |-> s.ws]]
    ELSE [s EXCEPT !.recv_loops[t].pc = "done"]

\* The application calls connect(), at start-up (initialize_providers) or from
\* get_realtime_stream when not connected: up to the await of websockets.connect
ApiConnect ==
    /\ api = "idle"
    /\ ~is_connected
    /\ api' = "connecting"
    /\ SetWsState(WsState)

ApiConnectDone(ok, alive) ==
    /\ api = "connecting"
    /\ alive => ok
    /\ ok => sockets_created < MaxSockets
    /\ api' = "idle"
    /\ SetWsState(IF ok THEN ConnectSucceeds(WsState, alive)
                  ELSE ConnectFails(WsState))

\* A created receive task runs for the first time
LoopStart(t) ==
    /\ recv_loops[t].pc = "start"
    /\ SetWsState(LoopTop(WsState, t))
    /\ UNCHANGED api

\* A faulty echo: only the heartbeat itself is sent back
EchoHeartbeatOnly(frame) == SubSeq(frame, 1, 3)

\* The frame sent back for a heartbeat: the message as it came
Echo(frame) == frame

\* _process_message: a frame holding a heartbeat is sent back and nothing
\* else is done with it; a send that raises is swallowed
_process_message(s, frame) ==
    IF ContainsHeartbeat(frame)
    THEN IF CanSend(s) THEN [s EXCEPT !.sent[s.ws] = Append(@, Echo(frame))] ELSE s
    ELSE s

\* recv returns a message: _process_message, then the loop goes round
Message(t, frame) ==
    /\ recv_loops[t].pc = "recv"
    /\ recv_loops[t].sock \in open_socks
    /\ ContainsHeartbeat(frame) => Len(heartbeats) < MaxHeartbeats
    /\ LET s == [WsState EXCEPT
                   !.last_message_age = "fresh",
                   !.heartbeats = IF ContainsHeartbeat(frame)
                                  THEN Append(@, [sock |-> recv_loops[t].sock,
                                                  frame |-> frame])
                                  ELSE @]
       IN  SetWsState(LoopTop(_process_message(s, frame), t))
    /\ UNCHANGED api

\* A faulty TimeoutError branch: the connection is taken for lost
_receive_loop_timeoutDisconnects(s) ==
    [s EXCEPT !.hs = DEGRADED, !.is_connected = FALSE]

\* The TimeoutError branch of _receive_loop
_receive_loop_timeout(s) ==
    [s EXCEPT !.hs = IF @ = HEALTHY THEN DEGRADED ELSE @]

\* MESSAGE_TIMEOUT passes without a message: the branch, then the loop goes
\* round
Timeout(t) ==
    /\ recv_loops[t].pc = "recv"
    /\ recv_loops[t].sock \in open_socks
    /\ SetWsState(LoopTop([_receive_loop_timeout(WsState)
                              EXCEPT !.timed_out = t], t))
    /\ UNCHANGED api

\* recv raises ConnectionClosed
ConnectionLost(t) ==
    /\ recv_loops[t].pc = "recv"
    /\ recv_loops[t].sock \notin open_socks
    /\ SetWsState(_reconnect([WsState EXCEPT !.is_connected = FALSE], t))
    /\ UNCHANGED api

\* _reconnect after its sleep: connect(), and on success the resubscription;
\* either way _reconnect returns and the receive loop that called it ends.
ReconnectDone(t, ok, alive) ==
    /\ recv_loops[t].pc = "reconnecting"
    /\ alive => ok
    /\ ok => sockets_created < MaxSockets
    /\ LET s == [WsState EXCEPT !.recv_loops[t].pc = "done"]
           c == ConnectSucceeds(s, alive)
       IN  SetWsState(IF ok
                      THEN Resubscribe([c EXCEPT !.subscribed_symbols = <<>>],
                                       c.subscribed_symbols)
                      ELSE [ConnectFails(s) EXCEPT !.failed_reconnects = @ + 1])
    /\ UNCHANGED api

\* A created monitor task runs for the first time
MonitorStart(m) ==
    /\ monitor_loops[m] = "start"
    /\ SetWsState([WsState EXCEPT
                      !.monitor_loops[m] = IF is_connected THEN "sleep" ELSE "done"])
    /\ UNCHANGED api

\* _health_monitor_loop after its sleep of HEALTH_CHECK_INTERVAL
MonitorWake(m) ==
    /\ monitor_loops[m] = "sleep"
    /\ SetWsState([WsState EXCEPT
                      !.hs = CASE last_message_age = "dead" -> DOWN
                               [] last_message_age = "stale" -> DEGRADED
                               [] OTHER -> HEALTHY,
                      !.monitor_loops[m] = IF is_connected THEN "sleep" ELSE "done"])
    /\ UNCHANGED api

\* The peer or the network closes a socket
TransportClose(sock) ==
    /\ sock \in open_socks
    /\ SetWsState([WsState EXCEPT !.open_socks = @ \ {sock}])
    /\ UNCHANGED api

\* The time since the last message passes MESSAGE_TIMEOUT, then twice that
TimePasses ==
    /\ last_message_age \in {"fresh", "stale"}
    /\ SetWsState([WsState EXCEPT
                      !.last_message_age = IF @ = "fresh" THEN "stale" ELSE "dead"])
    /\ UNCHANGED api

\* disconnect() up to the end of its awaits on the cancelled tasks: the flag,
\* and the cancellation of the receive task and the monitor task it holds
disconnect_cancel(s) ==
    [s EXCEPT
       !.is_connected = FALSE,
       !.recv_loops = [t \in TaskIds |->
                         IF t = s.receive_task /\ @[t].pc # "none"
                         THEN [@[t] EXCEPT !.pc = "done"] ELSE @[t]],
       !.monitor_loops = [m \in TaskIds |->
                         IF m = s.health_monitor_task /\ @[m] # "none"
                         THEN "done" ELSE @[m]]]

\* A faulty end of disconnect(): the aggregators are kept
disconnect_closeKeepsAggregators(s) ==
    [s EXCEPT !.open_socks = @ \ {s.ws}, !.ws = 0,
              !.subscribed_symbols = <<>>]

\* disconnect() from `if self._ws`: the socket is closed and forgotten, the
\* dictionaries are cleared
disconnect_close(s) ==
    [s EXCEPT !.open_socks = @ \ {s.ws}, !.ws = 0,
              !.subscribed_symbols = <<>>,
              !.bar_aggregators = [symbol \in StreamSymbols |-> "none"]]

\* disconnect() run from its first line to its last
disconnect(s) == disconnect_close(disconnect_cancel(s))

ApiDisconnect ==
    /\ api = "idle"
    /\ api' = "closing"
    /\ SetWsState(disconnect_cancel(WsState))

ApiDisconnectDone ==
    /\ api = "closing"
    /\ api' = "idle"
    /\ SetWsState(disconnect_close(WsState))

\* get_realtime_stream is called: without a connection it calls connect(),
\* else it subscribes its symbols and waits for bars
StreamCall(k, symbols, timeframe) ==
    /\ streams[k].pc = "none"
    /\ LET s == [WsState EXCEPT !.streams[k].symbols = symbols,
                                !.streams[k].timeframe = timeframe]
       IN  SetWsState(IF ~is_connected
                      THEN [s EXCEPT !.streams[k].pc = "connecting"]
                      ELSE [SubscribeAll(s, symbols, timeframe)
                               EXCEPT !.streams[k].pc = "streaming"])
    /\ UNCHANGED api

\* The connect() of a get_realtime_stream call returns: the call subscribes
\* and waits for bars, or raises ConnectionError
StreamConnectDone(k, ok, alive) ==
    /\ streams[k].pc = "connecting"
    /\ alive => ok
    /\ ok => sockets_created < MaxSockets
    /\ SetWsState(IF ok
                  THEN [SubscribeAll(ConnectSucceeds(WsState, alive), streams[k].symbols,
                                     streams[k].timeframe)
                           EXCEPT !.streams[k].pc = "streaming"]
                  ELSE [ConnectFails(WsState) EXCEPT !.streams[k].pc = "raised"])
    /\ UNCHANGED api

\* A stream ends: its loop found the connection gone, or its consumer closed
\* it; the finally clause unsubscribes its symbols
StreamEnd(k) ==
    /\ streams[k].pc = "streaming"
    /\ SetWsState([UnsubscribeAll(WsState, streams[k].symbols)
                      EXCEPT !.streams[k].pc = "ended"])
    /\ UNCHANGED api

\* The (symbol, timeframe, limit) get_ohlcv is called with on this provider
WsOhlcvInputs == {<<"THYAO", "1m", 500>>, <<"GARAN", "1D", 1>>}

NoWsOhlcv ==
    [symbol |-> "none", timeframe |-> "none", limit |-> 0, outcome |-> "none"]

\* A faulty get_ohlcv: an empty frame while the connection is down
WsProviderGetOhlcvEmptyWhenDown(symbol, timeframe, limit) ==
    IF is_connected THEN "unsupported" ELSE "empty"

\* TradingViewWebSocketProvider.get_ohlcv: raise NotImplementedError
WsProviderGetOhlcv(symbol, timeframe, limit) == "unsupported"

\* get_ohlcv is called on the streaming provider
WsGetOhlcv(symbol, timeframe, limit) ==
    /\ ws_ohlcv' = [symbol |-> symbol, timeframe |-> timeframe, limit |-> limit,
                    outcome |-> WsProviderGetOhlcv(symbol, timeframe, limit)]
    /\ UNCHANGED <<wsVars, health_status>>

\* The provider after __init__; callback_set: set_on_disconnect_callback was called
ConstructedWs(callback_set) ==
    /\ ws = 0
    /\ is_connected = FALSE
    /\ reconnect_attempts = 0
    /\ last_message_age = "none"
    /\ receive_task = 0
    /\ health_monitor_task = 0
    /\ recv_loops = [t \in TaskIds |-> [pc |-> "none", sock |-> 0]]
    /\ monitor_loops = [m \in TaskIds |-> "none"]
    /\ open_socks = {}
    /\ sockets_created = 0
    /\ api = "idle"
    /\ on_disconnect_callback = callback_set
    /\ disconnect_callbacks = 0
    /\ failed_reconnects = 0
    /\ ws_ohlcv = NoWsOhlcv
    /\ session_id = "none"
    /\ subscribed_symbols = <<>>
    /\ bar_aggregators = [symbol \in StreamSymbols |-> "none"]
    /\ streams = [k \in Streams |-> NoStream]
    /\ sent = [n \in TaskIds |-> <<>>]
    /\ heartbeats = <<>>
    /\ timed_out = 0

InitWs == \E callback_set \in BOOLEAN : ConstructedWs(callback_set)

\* The manager and the aggregator stay as they are
WsFrame == UNCHANGED <<mgrVars, aggVars, rlVars, ohlcv, backoff, codec, http_req, bar_path>>

NextWs ==
    \/ ApiConnect /\ WsFrame
    \/ \E ok \in BOOLEAN : ApiConnectDone(ok, ok) /\ WsFrame
    \/ \E t \in TaskIds : LoopStart(t) /\ WsFrame
    \/ \E t \in TaskIds : Message(t, QuoteFrame) /\ WsFrame
    \/ \E t \in TaskIds : Timeout(t) /\ WsFrame
    \/ \E t \in TaskIds : ConnectionLost(t) /\ WsFrame
    \/ \E t \in TaskIds, ok \in BOOLEAN : ReconnectDone(t, ok, ok) /\ WsFrame
    \/ \E m \in TaskIds : MonitorStart(m) /\ WsFrame
    \/ \E m \in TaskIds : MonitorWake(m) /\ WsFrame
    \/ \E sock \in TaskIds : TransportClose(sock) /\ WsFrame
    \/ TimePasses /\ WsFrame
    \/ ApiDisconnect /\ WsFrame
    \/ ApiDisconnectDone /\ WsFrame
    \/ \E inp \in WsOhlcvInputs : WsGetOhlcv(inp[1], inp[2], inp[3]) /\ WsFrame

\* The streaming provider with its streams, and with the sockets that the
\* peer closes as soon as they are open (in NextWs a socket is closed by
\* TransportClose only).  connect() is called once at
\* start-up (initialize_providers) and by get_realtime_stream; the health
\* monitor is left to SpecWs, the heartbeats to SpecHeartbeat
NextStream ==
    \/ sockets_created = 0 /\ ApiConnect /\ WsFrame
    \/ \E ok \in BOOLEAN, alive \in BOOLEAN : ApiConnectDone(ok, alive) /\ WsFrame
    \/ \E t \in TaskIds : LoopStart(t) /\ WsFrame
    \/ \E t \in TaskIds : Message(t, QuoteFrame) /\ WsFrame
    \/ \E t \in TaskIds : Timeout(t) /\ WsFrame
    \/ \E t \in TaskIds : ConnectionLost(t) /\ WsFrame
    \/ \E t \in TaskIds, ok \in BOOLEAN, alive \in BOOLEAN :
          ReconnectDone(t, ok, alive) /\ WsFrame
    \/ \E sock \in TaskIds : TransportClose(sock) /\ WsFrame
    \/ ApiDisconnect /\ WsFrame
    \/ ApiDisconnectDone /\ WsFrame
    \/ \E k \in Streams, inp \in StreamInputs :
          StreamCall(k, inp[1], inp[2]) /\ WsFrame
    \/ \E k \in Streams, ok \in BOOLEAN, alive \in BOOLEAN :
          StreamConnectDone(k, ok, alive) /\ WsFrame
    \/ \E k \in Streams : StreamEnd(k) /\ WsFrame

\* The connection with the frames the server sends, heartbeats among them
NextHeartbeat ==
    \/ ApiConnect /\ WsFrame
    \/ \E ok \in BOOLEAN, alive \in BOOLEAN : ApiConnectDone(ok, alive) /\ WsFrame
    \/ \E t \in TaskIds : LoopStart(t) /\ WsFrame
    \/ \E t \in TaskIds, frame \in Frames : Message(t, frame) /\ WsFrame
    \/ \E t \in TaskIds : ConnectionLost(t) /\ WsFrame
    \/ \E t \in TaskIds, ok \in BOOLEAN, alive \in BOOLEAN :
          ReconnectDone(t, ok, alive) /\ WsFrame
    \/ \E sock \in TaskIds : TransportClose(sock) /\ WsFrame
    \/ ApiDisconnect /\ WsFrame
    \/ ApiDisconnectDone /\ WsFrame

-----------------------------------------------------------------------------
(* Properties of the streaming connection *)

\* Nothing is left that would try to connect: no receive task is running or
\* reconnecting, and the application is not in connect() or disconnect()
NobodyRetries ==
    /\ api = "idle"
    /\ \A t \in TaskIds : recv_loops[t].pc \in {"none", "done"}

\* C9: the connection stops retrying after a failed reconnect only when
\* RECONNECT_MAX_ATTEMPTS reconnects in a row have failed; its health is then
\* Down and the disconnect callback, when one is set, has been invoked
\* exactly once.
C9_RetriesUntilMaxAttempts ==
    (failed_reconnects > 0 /\ NobodyRetries) =>
        /\ failed_reconnects = RECONNECT_MAX_ATTEMPTS
        /\ health_status[WsName] = DOWN
        /\ on_disconnect_callback => disconnect_callbacks = 1

\* C15: a get_ohlcv on the streaming provider ends in the Unsupported signal
\* whatever the symbol, timeframe, limit and connection state, and leaves
\* every field of the provider and its health status as they were.
C15_GetOhlcvUnsupported ==
    [][ ws_ohlcv' # ws_ohlcv =>
          /\ ws_ohlcv'.outcome = "unsupported"
          /\ UNCHANGED <<wsVars, health_status>> ]_vars

\* C15 witness: get_ohlcv was answered with Unsupported on a provider that is
\* disconnected and in the middle of a reconnect
C15_Witness ==
    /\ ws_ohlcv.outcome = "unsupported"
    /\ ~is_connected
    /\ sockets_created = 1
    /\ \E t \in TaskIds : recv_loops[t].pc = "reconnecting"

\* A heartbeat frame was received in this step
HeartbeatReceived == Len(heartbeats') = Len(heartbeats) + 1

FuncOf(frame) == frame[2]

HandshakeFuncs == <<"set_auth_token", "quote_create_session", "quote_set_fields">>

SymbolFuncs == {"quote_add_symbols", "quote_fast_symbols", "quote_remove_symbols"}

\* C17: every socket a connect has created, unless the peer closed it before
\* anything could be sent, carries set_auth_token, quote_create_session and
\* quote_set_fields as its first three frames, in that order and once each,
\* so that every quote_add_symbols,
\* quote_fast_symbols and quote_remove_symbols on the socket comes after the
\* three, also while get_realtime_stream calls and connects overlap.
C17_HandshakeFirst ==
    \A n \in TaskIds :
        /\ n \in open_socks => Len(sent[n]) >= 3
        /\ n > sockets_created => sent[n] = <<>>
        /\ sent[n] # <<>> => Len(sent[n]) >= 3
        /\ \A i \in DOMAIN sent[n] :
              IF i <= 3 THEN FuncOf(sent[n][i]) = HandshakeFuncs[i]
                        ELSE FuncOf(sent[n][i]) \in SymbolFuncs

\* C17 witness: a get_realtime_stream call found no connection while the
\* start-up connect was still under way, connected by itself and subscribed
\* its two symbols on the socket it got, behind the handshake
C17_Witness ==
    /\ api = "connecting"
    /\ streams["s1"].pc = "streaming"
    /\ sockets_created = 1
    /\ Len(sent[1]) = 7
    /\ FuncOf(sent[1][4]) = "quote_add_symbols"

\* What a finished disconnect() leaves: not connected, the receive task and
\* the monitor task of before over, the socket of before closed and
\* forgotten, no subscription and no aggregator
ShutDown(before, after) ==
    /\ ~after.is_connected
    /\ before.receive_task # 0 =>
           after.recv_loops[before.receive_task].pc = "done"
    /\ before.health_monitor_task # 0 =>
           after.monitor_loops[before.health_monitor_task] = "done"
    /\ after.ws = 0
    /\ before.ws \notin after.open_socks
    /\ after.subscribed_symbols = <<>>
    /\ \A symbol \in StreamSymbols : after.bar_aggregators[symbol] = "none"

\* C18: in whatever state the provider is, disconnect() cancels the receive
\* task and the health-monitor task the provider holds, closes the socket and
\* clears the subscriptions and the aggregators, and a second disconnect()
\* right after it leaves the state as the first left it.
C18_DisconnectIdempotent ==
    LET d == disconnect(WsState)
    IN  /\ ShutDown(WsState, d)
        /\ disconnect(d) = d

\* C18 witness: a disconnect() has shut down a connection with its tasks
\* running and two symbols subscribed, and the state it left is the one a
\* further disconnect() gives
C18_Witness ==
    /\ api = "idle"
    /\ streams["s1"].pc = "streaming"
    /\ Len(sent[1]) = 7
    /\ receive_task = 1
    /\ recv_loops[1].pc = "done"
    /\ ws = 0
    /\ open_socks = {}
    /\ subscribed_symbols = <<>>
    /\ disconnect(WsState) = WsState

\* A reconnect succeeds in this step: the _reconnect of a receive task gets
\* its socket
Reconnected ==
    \E t \in TaskIds :
        /\ recv_loops[t].pc = "reconnecting"
        /\ recv_loops'[t].pc = "done"
        /\ sockets_created' = sockets_created + 1

\* The subscription frames of a symbol in a session, one right after the other
SubscriptionSent(log, sid, symbol) ==
    \E k \in 4..(Len(log) - 1) :
        /\ log[k] = create_message("quote_add_symbols", <<sid, tv_symbol(symbol)>>)
        /\ log[k + 1] = create_message("quote_fast_symbols", <<sid, tv_symbol(symbol)>>)

ManagerGetRealtimeStream(k) ==
    IF WsName \notin providers THEN "raised" ELSE streams[k].pc

\* C20: no query operation of the ProviderManager lets a provider or
\* transport error reach its caller; for get_realtime_stream, no call ends
\* in an exception.
C20_NoErrorReachesCaller ==
    \A k \in Streams : ManagerGetRealtimeStream(k) # "raised"

\* C21: in every state of the streaming provider the subscribed symbols are
\* the symbols that have a BarAggregator, during and after a reconnect too.
C21_AggregatorIffSubscribed ==
    \A symbol \in StreamSymbols :
        InDict(subscribed_symbols, symbol) <=> bar_aggregators[symbol] # "none"

\* C22: when a realtime stream ends, whatever ended it, none of the symbols
\* it asked for is subscribed any longer and none has an aggregator.
C22_StreamEndUnsubscribes ==
    [][ \A k \in Streams :
          (streams[k].pc = "streaming" /\ streams'[k].pc = "ended") =>
             \A i \in DOMAIN streams[k].symbols :
                /\ ~InDict(subscribed_symbols', streams[k].symbols[i])
                /\ bar_aggregators'[streams[k].symbols[i]] = "none" ]_vars

\* The handshake of socket n could not be sent
HandshakeFailed(n) == n <= sockets_created /\ sent[n] = <<>>

\* C23: a connect whose handshake could not be sent has failed: it has
\* created no receive task for the socket (connect() creates its tasks only
\* on the way to reporting success), so that no receive loop runs on it.
C23_HandshakeFailureFailsConnect ==
    \A n \in TaskIds : HandshakeFailed(n) => recv_loops[n].pc = "none"

\* A connect() or reconnect returns True in this step: it has got a socket
ConnectSucceeded == sockets_created' = sockets_created + 1

\* A receive task enters _reconnect and goes to sleep before its attempt
ReconnectBegins ==
    \E t \in TaskIds :
        /\ recv_loops[t].pc # "reconnecting"
        /\ recv_loops'[t].pc = "reconnecting"

\* C24: the attempt counter is 0 right after every connect or reconnect that
\* succeeds, and nothing else lowers it: a failed attempt leaves it as it is,
\* and it grows by one where a receive task begins a reconnect.
C24_CounterResetOnSuccessOnly ==
    [][ /\ ConnectSucceeded => reconnect_attempts' = 0
        /\ ~ConnectSucceeded =>
              \/ reconnect_attempts' = reconnect_attempts
              \/ /\ reconnect_attempts' = reconnect_attempts + 1
                 /\ ReconnectBegins ]_vars

\* C24 witness: the connection of the start-up connect was lost, the receive
\* task counted its attempt and reconnected, and the counter is 0 again
C24_Witness ==
    /\ sockets_created = 2
    /\ streams["s1"].pc = "none"
    /\ recv_loops[1].pc = "done"
    /\ is_connected
    /\ 2 \in open_socks
    /\ reconnect_attempts = 0

\* The step is the TimeoutError branch of receive task t
TimedOut(t) == t # 0 /\ timed_out' = t

\* What a message timeout does: the health goes from Healthy to Degraded and
\* the connection is left as it is
TimeoutMarksDegradedOnly ==
    /\ is_connected' = is_connected
    /\ ws' = ws
    /\ open_socks' = open_socks
    /\ sockets_created' = sockets_created
    /\ subscribed_symbols' = subscribed_symbols
    /\ bar_aggregators' = bar_aggregators
    /\ reconnect_attempts' = reconnect_attempts
    /\ health_status' = [health_status EXCEPT
                            ![WsName] = IF @ = HEALTHY THEN DEGRADED ELSE @]

\* Receive task t leaves its recv, clears the connected flag and starts the
\* reconnect procedure
LoopDisconnects(t) ==
    /\ recv_loops[t].pc = "recv"
    /\ recv_loops'[t].pc = "reconnecting"
    /\ ~is_connected'

\* The recv that task t would issue now is refused: another receive task is
\* already waiting on the provider's socket
RecvRefused(t) ==
    /\ is_connected
    /\ \E u \in TaskIds \ {t} :
          recv_loops[u].pc = "recv" /\ recv_loops[u].sock = ws

Quiet ==
    /\ subscribed_symbols = <<>>
    /\ \A symbol \in StreamSymbols : bar_aggregators[symbol] = "none"
    /\ \A t \in TaskIds : recv_loops[t].pc \notin {"recv", "reconnecting"}
    /\ \A m \in TaskIds : monitor_loops[m] # "sleep"

\* disconnect() returns in this step
DisconnectCompletes == api = "closing" /\ api' = "idle"

\* C40: when disconnect() has completed, the subscription map and the
\* aggregator map are empty and no background loop of the provider is left
\* to run or to write the health.
C40_QuietAfterDisconnect ==
    [][DisconnectCompletes => Quiet']_vars

\* The receive tasks that are receiving or about to, and the monitor tasks
\* that are in their loop or about to
LiveReceiveLoops == {t \in TaskIds : recv_loops[t].pc \in {"start", "recv"}}

LiveMonitorLoops == {m \in TaskIds : monitor_loops[m] \in {"start", "sleep"}}

\* C32: at any time the connection has at most one live receive loop, at most
\* one live health-monitor loop and at most one open socket.
C32_OneLoopOfEachKind ==
    /\ Cardinality(LiveReceiveLoops) <= 1
    /\ Cardinality(LiveMonitorLoops) <= 1
    /\ Cardinality(open_socks) <= 1

-----------------------------------------------------------------------------
(* BarAggregator *)

\* A datetime is its epoch second: timestamp() and fromtimestamp() go through
\* the local zone, which for Europe/Istanbul is a fixed offset, so the order
\* of two datetimes is the order of their epoch seconds.  None is -1 for
\* bar_start_time and NoBar for a bar.
NoBar ==
    [timestamp |-> -1, open |-> 0, high |-> 0, low |-> 0, close |-> 0,
     volume |-> 0, symbol |-> "none"]

AggSymbol == "THYAO"

\* The timeframes the aggregators are built with
AggTimeframes == {"1m", "5m"}

\* The (price, volume) pairs and the times of the ticks
TickKinds == {<<10, 100>>, <<12, 50>>, <<9, 20>>}
TickTimes == {0, 5, 10, 61, 305}

Max2(a, b) == IF a >= b THEN a ELSE b

Min2(a, b) == IF a <= b THEN a ELSE b

get_bar_duration_seconds(tf) ==
    CASE tf = "1m" -> 60
      [] tf = "5m" -> 300
      [] tf = "15m" -> 900
      [] tf = "1h" -> 3600
      [] tf = "1D" -> 86400
      [] OTHER -> 60

get_bar_start_time(tf, timestamp) ==
    LET duration == get_bar_duration_seconds(tf)
    IN  (timestamp \div duration) * duration

\* The bar a tick opens
NewBar(bar_start, price, volume) ==
    [timestamp |-> bar_start, open |-> price, high |-> price, low |-> price,
     close |-> price, volume |-> volume, symbol |-> AggSymbol]

\* A faulty update: the volume is replaced, not accumulated
UpdateBarLastVolume(bar, price, volume) ==
    [bar EXCEPT !.high = Max2(@, price), !.low = Min2(@, price),
                !.close = price, !.volume = volume]

\* The forming bar after a tick of its own bucket
UpdateBar(bar, price, volume) ==
    [bar EXCEPT !.high = Max2(@, price), !.low = Min2(@, price),
                !.close = price, !.volume = @ + volume]

\* A faulty process_tick: at a bucket change the bar just opened is returned
process_tickReturnsForming(tf, bar, start, price, volume, timestamp) ==
    LET bar_start == get_bar_start_time(tf, timestamp)
    IN  IF start = -1 \/ bar_start > start
        THEN [current_bar |-> NewBar(bar_start, price, volume),
              bar_start_time |-> bar_start,
              completed_bar |-> IF bar # NoBar
                                THEN NewBar(bar_start, price, volume) ELSE bar]
        ELSE [current_bar |-> IF bar # NoBar THEN UpdateBar(bar, price, volume) ELSE bar,
              bar_start_time |-> start,
              completed_bar |-> NoBar]

\* A faulty process_tick: any change of bucket, also to an earlier one, closes
\* the forming bar and opens a new one
process_tickAnyBucketChange(tf, bar, start, price, volume, timestamp) ==
    LET bar_start == get_bar_start_time(tf, timestamp)
    IN  IF start = -1 \/ bar_start # start
        THEN [current_bar |-> NewBar(bar_start, price, volume),
              bar_start_time |-> bar_start,
              completed_bar |-> bar]
        ELSE [current_bar |-> IF bar # NoBar THEN UpdateBar(bar, price, volume) ELSE bar,
              bar_start_time |-> start,
              completed_bar |-> NoBar]

\* process_tick: the aggregator's fields afterwards and the value returned
process_tick(tf, bar, start, price, volume, timestamp) ==
    LET bar_start == get_bar_start_time(tf, timestamp)
    IN  IF start = -1 \/ bar_start > start
        THEN [current_bar |-> NewBar(bar_start, price, volume),
              bar_start_time |-> bar_start,
              completed_bar |-> bar]
        ELSE [current_bar |-> IF bar # NoBar THEN UpdateBar(bar, price, volume) ELSE bar,
              bar_start_time |-> start,
              completed_bar |-> NoBar]

\* One tick is fed to the aggregator; a returned bar is emitted
Tick(price, volume, timestamp) ==
    /\ Len(ticks) < MaxTicks
    /\ LET r == process_tick(agg_timeframe, current_bar, bar_start_time,
                             price, volume, timestamp)
       IN  /\ current_bar' = r.current_bar
           /\ bar_start_time' = r.bar_start_time
           /\ emitted' = IF r.completed_bar # NoBar
                         THEN Append(emitted, r.completed_bar) ELSE emitted
    /\ ticks' = Append(ticks, [price |-> price, volume |-> volume,
                               timestamp |-> timestamp])
    /\ UNCHANGED agg_timeframe

\* BarAggregator(symbol, timeframe) as constructed
ConstructedAgg(tf) ==
    /\ agg_timeframe = tf
    /\ current_bar = NoBar
    /\ bar_start_time = -1
    /\ ticks = <<>>
    /\ emitted = <<>>

InitAgg == \E tf \in AggTimeframes : ConstructedAgg(tf)

\* The manager, the providers and the streaming provider stay as they are
AggFrame ==
    UNCHANGED <<mgrVars, health_status, wsVars, ws_ohlcv, rlVars, ohlcv, backoff,
                codec, http_req, bar_path>>

NextAgg ==
    \E kind \in TickKinds, timestamp \in TickTimes :
        Tick(kind[1], kind[2], timestamp) /\ AggFrame

-----------------------------------------------------------------------------
(* Properties of BarAggregator (under SpecAgg) *)

\* The ticks came in non-decreasing time order
InOrder ==
    \A i \in 1..(Len(ticks) - 1) : ticks[i].timestamp <= ticks[i + 1].timestamp

\* The bucket of tick k: the multiple of the bar duration its time falls in
BucketOf(k) ==
    LET d == get_bar_duration_seconds(agg_timeframe)
        t == ticks[k].timestamp
    IN  CHOOSE b \in 0..t : b % d = 0 /\ b <= t /\ t < b + d

\* The ticks that are the first of a later bucket
BucketChanges == {k \in 2..Len(ticks) : BucketOf(k) # BucketOf(k - 1)}

\* The first tick of the bucket that tick k closes
FirstOfClosed(k) ==
    CHOOSE s \in 1..(k - 1) :
        /\ \A i \in s..(k - 1) : BucketOf(i) = BucketOf(k - 1)
        /\ s = 1 \/ BucketOf(s - 1) # BucketOf(k - 1)

RECURSIVE VolumeSum(_, _)
VolumeSum(from, to) ==
    IF from > to THEN 0 ELSE ticks[from].volume + VolumeSum(from + 1, to)

\* C10: for ticks in non-decreasing time order, one bar is emitted per bucket
\* change, and the bar emitted at the first tick of a later bucket has the
\* open of the closed bucket's first tick, the maximum and minimum of its
\* prices, the close of its last tick and the sum of its volumes.
C10_BarOfClosedBucket ==
    InOrder =>
        /\ Len(emitted) = Cardinality(BucketChanges)
        /\ \A k \in BucketChanges :
              LET bar == emitted[Cardinality({j \in BucketChanges : j <= k})]
                  s == FirstOfClosed(k)
                  prices == {ticks[i].price : i \in s..(k - 1)}
              IN  /\ bar.open = ticks[s].price
                  /\ \A x \in prices : x <= bar.high
                  /\ bar.high \in prices
                  /\ \A x \in prices : x >= bar.low
                  /\ bar.low \in prices
                  /\ bar.close = ticks[k - 1].price
                  /\ bar.volume = VolumeSum(s, k - 1)

\* C10 witness: ticks (10,100,t0), (12,50,t0+5), (9,20,t0+10) and a tick at
\* t0+61 into a 1-minute aggregator emitted the one bar {10, 12, 9, 9, 170}
C10_Witness ==
    /\ agg_timeframe = "1m"
    /\ Len(ticks) = 4
    /\ ticks[1] = [price |-> 10, volume |-> 100, timestamp |-> 0]
    /\ ticks[2] = [price |-> 12, volume |-> 50, timestamp |-> 5]
    /\ ticks[3] = [price |-> 9, volume |-> 20, timestamp |-> 10]
    /\ ticks[4].timestamp = 61
    /\ Len(emitted) = 1
    /\ emitted[1].open = 10
    /\ emitted[1].high = 12
    /\ emitted[1].low = 9
    /\ emitted[1].close = 9
    /\ emitted[1].volume = 170

\* C11: a bar is handed on only by a tick of a later bucket than the forming
\* bar's, the bar handed on is the bar that was forming before that tick and
\* is no longer the forming bar (it lies in an earlier bucket than the bar
\* now forming), and the bars handed on earlier stay as they were.
C11_OnlyClosedBarEmitted ==
    [][ /\ IsPrefix(emitted, emitted')
        /\ Len(emitted') <= Len(emitted) + 1
        /\ Len(emitted') = Len(emitted) + 1 =>
              /\ bar_start_time # -1
              /\ get_bar_start_time(agg_timeframe, Last(ticks').timestamp)
                    > bar_start_time
              /\ Last(emitted') = current_bar
              /\ Last(emitted') # current_bar'
              /\ Last(emitted').timestamp = bar_start_time
              /\ Last(emitted').timestamp < bar_start_time'
        /\ Len(emitted') = Len(emitted) =>
              \/ bar_start_time = -1
              \/ get_bar_start_time(agg_timeframe, Last(ticks').timestamp)
                    <= bar_start_time ]_vars

\* C11 witness: a bar was handed on at the third tick, and the fourth tick
\* changed the forming bar while the bar handed on kept its values
C11_Witness ==
    /\ Len(ticks) = 4
    /\ Len(emitted) = 1
    /\ BucketOf(3) > BucketOf(2)
    /\ BucketOf(4) = BucketOf(3)
    /\ emitted[1].timestamp = BucketOf(2)
    /\ emitted[1].close = ticks[2].price
    /\ current_bar.timestamp = BucketOf(3)
    /\ current_bar.close = ticks[4].price
    /\ current_bar.volume = ticks[3].volume + ticks[4].volume

\* The tick of this step, and its bucket
LastTick == ticks'[Len(ticks')]

LastBucket == get_bar_start_time(agg_timeframe, LastTick.timestamp)

\* The emitted bars start at multiples of the bar duration, each later than
\* the one before
EmittedIncreasing ==
    /\ \A i \in DOMAIN emitted :
          emitted[i].timestamp % get_bar_duration_seconds(agg_timeframe) = 0
    /\ \A i \in 1..(Len(emitted) - 1) :
          emitted[i].timestamp < emitted[i + 1].timestamp

\* A tick that opens a bar lies in the bar's interval; a tick whose bucket is
\* not later than the forming bar's emits nothing and opens nothing
TickOpensOwnBucketOnly ==
    Len(ticks') = Len(ticks) + 1 =>
        /\ current_bar'.timestamp # current_bar.timestamp =>
              /\ current_bar'.timestamp % get_bar_duration_seconds(agg_timeframe) = 0
              /\ current_bar'.timestamp <= LastTick.timestamp
              /\ LastTick.timestamp <
                    current_bar'.timestamp + get_bar_duration_seconds(agg_timeframe)
        /\ (bar_start_time # -1 /\ LastBucket <= bar_start_time) =>
              /\ emitted' = emitted
              /\ bar_start_time' = bar_start_time
              /\ current_bar'.timestamp = current_bar.timestamp
              /\ current_bar'.open = current_bar.open

\* C38: for any sequence of ticks, in or out of time order, the emitted bars
\* have strictly increasing timestamps that are multiples of the bar duration,
\* the tick that opens a bar lies in [bar start, bar start + duration), and a
\* tick whose bucket is not later than the forming bar's neither emits a bar
\* nor opens one.
C38_BarsIncreaseOutOfOrderIgnored ==
    []EmittedIncreasing /\ [][TickOpensOwnBucketOnly]_vars

\* C38 witness: two bars were emitted although a tick came out of time order
C38_Witness ==
    /\ Len(emitted) >= 2
    /\ ~InOrder
    /\ \E k \in 2..Len(ticks) :
          /\ ticks[k].timestamp < ticks[k - 1].timestamp
          /\ BucketOf(k) < BucketOf(k - 1)

-----------------------------------------------------------------------------
(* RateLimiter (finnhub.py 33-67) *)

\* Time is counted in tenths of a second: time.time() is the clock, a period
\* of p seconds is 10 * p, and the 0.1 s added to the wait is 1.
TENTHS == 10

\* RateLimiter(max_calls, period) as the limiters are built
RateLimiterArgs == {<<1, 1>>, <<2, 1>>, <<3, 1>>}

Acquirers == 1..MaxAcquirers

\* A caller that has not called acquire()
IdleAcquirer == [pc |-> "idle", called_at |-> 0, wait_time |-> 0, wake_at |-> 0]

\* [t for t in self.calls if now - t < self.period]
Prune(call_times, now) ==
    SelectSeq(call_times, LAMBDA t : now - t < rl_period * TENTHS)

\* A faulty second clean-up: the list is left as it was before the sleep
PruneAfterWaitSkipped(call_times, now) == call_times

\* The clean-up after the sleep
PruneAfterWait(call_times, now) == Prune(call_times, now)

\* A faulty wait: measured from the newest timestamp
WaitTimeFromNewest(call_times, now) ==
    rl_period * TENTHS - (now - call_times[Len(call_times)]) + 1

\* wait_time = self.period - (now - self.calls[0]) + 0.1
WaitTime(call_times, now) ==
    rl_period * TENTHS - (now - call_times[1]) + 1

\* A lock that never makes a caller wait
LockAlwaysFree == TRUE

\* asyncio.Lock.acquire takes the lock at once only when it is not held and
\* nobody is queued for it
LockIsFree == rl_lock = 0 /\ rl_waiters = <<>>

\* Leaving `async with self._lock`: the lock goes to the first waiter, which
\* is made runnable, or becomes free
Release(a) ==
    IF rl_waiters # <<>>
    THEN /\ rl_lock' = Head(rl_waiters)
         /\ rl_waiters' = Tail(rl_waiters)
         /\ acq' = [a EXCEPT ![Head(rl_waiters)].pc = "locked"]
    ELSE /\ rl_lock' = 0
         /\ rl_waiters' = rl_waiters
         /\ acq' = a

\* The body of acquire() from `now = time.time()` to the sleep or the return
AcquireBody(c, a) ==
    LET now == clock
        pruned == Prune(rl_calls, now)
    IN  IF Len(pruned) >= rl_max_calls /\ WaitTime(pruned, now) > 0
        THEN /\ rl_calls' = pruned
             /\ rl_lock' = c
             /\ acq' = [a EXCEPT ![c].pc = "sleep",
                                 ![c].wait_time = WaitTime(pruned, now),
                                 ![c].wake_at = now + WaitTime(pruned, now)]
             /\ UNCHANGED <<rl_waiters, granted>>
        ELSE /\ rl_calls' = Append(pruned, now)
             /\ granted' = Append(granted, now)
             /\ Release([a EXCEPT ![c].pc = "done"])

\* A caller calls acquire(): it runs on when the lock is free, else it queues.
\* The callers are numbered in the order of their calls.
Acquire(c) ==
    /\ acq[c].pc = "idle"
    /\ \A d \in 1..(c - 1) : acq[d].pc # "idle"
    /\ IF LockIsFree
       THEN AcquireBody(c, [acq EXCEPT ![c].called_at = clock])
       ELSE /\ acq' = [acq EXCEPT ![c].pc = "waiting", ![c].called_at = clock]
            /\ rl_waiters' = Append(rl_waiters, c)
            /\ UNCHANGED <<rl_calls, rl_lock, granted>>
    /\ UNCHANGED <<clock, rl_max_calls, rl_period>>

\* A queued caller that was handed the lock runs on
LockAcquired(c) ==
    /\ acq[c].pc = "locked"
    /\ AcquireBody(c, acq)
    /\ UNCHANGED <<clock, rl_max_calls, rl_period>>

\* asyncio.sleep(wait_time) is over, not before its time: the list is
\* cleaned again, the call is recorded and acquire() returns
SleepOver(c) ==
    /\ acq[c].pc = "sleep"
    /\ clock >= acq[c].wake_at
    /\ rl_calls' = Append(PruneAfterWait(rl_calls, clock), clock)
    /\ granted' = Append(granted, clock)
    /\ Release([acq EXCEPT ![c].pc = "done"])
    /\ UNCHANGED <<clock, rl_max_calls, rl_period>>

\* A tenth of a second passes
ClockTick ==
    /\ clock < MaxClock
    /\ clock' = clock + 1
    /\ UNCHANGED <<rl_max_calls, rl_period, rl_calls, rl_lock, rl_waiters,
                   acq, granted>>

\* RateLimiter(max_calls, period) as constructed, and nobody calling yet
ConstructedRl(args) ==
    /\ clock = 0
    /\ rl_max_calls = args[1]
    /\ rl_period = args[2]
    /\ rl_calls = <<>>
    /\ rl_lock = 0
    /\ rl_waiters = <<>>
    /\ acq = [c \in Acquirers |-> IdleAcquirer]
    /\ granted = <<>>

InitRl == \E args \in RateLimiterArgs : ConstructedRl(args)

\* The manager, the providers, the stream and the aggregator stay as they are
RlFrame ==
    UNCHANGED <<mgrVars, health_status, wsVars, ws_ohlcv, aggVars, ohlcv, backoff,
                codec, http_req, bar_path>>

NextRl ==
    \/ \E c \in Acquirers : Acquire(c) /\ RlFrame
    \/ \E c \in Acquirers : LockAcquired(c) /\ RlFrame
    \/ \E c \in Acquirers : SleepOver(c) /\ RlFrame
    \/ ClockTick /\ RlFrame

-----------------------------------------------------------------------------
(* Properties of RateLimiter (under SpecRl) *)

\* The recorded timestamps that lie within the last period at this instant
InWindow == {i \in DOMAIN rl_calls : clock - rl_calls[i] < rl_period * TENTHS}

\* The oldest of them
OldestInWindow ==
    CHOOSE t \in {rl_calls[i] : i \in InWindow} :
        \A i \in InWindow : t <= rl_calls[i]

\* Caller c begins to wait for the window in this step
Blocks(c) == acq[c].pc # "sleep" /\ acq'[c].pc = "sleep"

\* acquire() of caller c returns in this step
Returns(c) == acq[c].pc # "done" /\ acq'[c].pc = "done"

\* C12: a caller that finds max_calls timestamps within the last period is
\* made to wait period - (now - oldest timestamp) + 0.1 s, its acquire()
\* returns no earlier than that long after it was called, and the return
\* records the call with the time of the return; only a caller that finds
\* fewer than max_calls timestamps in the window returns without waiting.
C12_BlocksForComputedWait ==
    [][ \A c \in Acquirers :
          /\ Blocks(c) =>
                /\ Cardinality(InWindow) >= rl_max_calls
                /\ acq'[c].wait_time =
                      rl_period * TENTHS - (clock - OldestInWindow) + 1
          /\ Returns(c) =>
                /\ acq[c].pc # "sleep" => Cardinality(InWindow) < rl_max_calls
                /\ acq[c].pc = "sleep" =>
                      clock >= acq[c].called_at + acq[c].wait_time
                /\ Last(rl_calls') = clock
                /\ Last(granted') = clock ]_vars

\* C12 witness: max_calls = 3, period = 1 s; three calls were granted in one
\* second, the fourth caller was made to wait and has returned, its call
\* recorded last
C12_Witness ==
    /\ rl_max_calls = 3
    /\ Len(granted) = 4
    /\ granted[3] - granted[1] < TENTHS
    /\ acq[4].called_at - granted[1] < TENTHS
    /\ acq[4].pc = "done"
    /\ acq[4].wait_time = TENTHS - (acq[4].called_at - granted[1]) + 1
    /\ granted[4] >= acq[4].called_at + acq[4].wait_time
    /\ Last(rl_calls) = granted[4]

\* C13: of the calls granted, at most max_calls lie in any window of one
\* period, and the timestamp list never holds more than max_calls entries.
C13_AtMostMaxCallsPerWindow ==
    /\ \A i \in DOMAIN granted :
          Cardinality({j \in DOMAIN granted :
                          /\ granted[j] <= granted[i]
                          /\ granted[i] - granted[j] < rl_period * TENTHS})
            <= rl_max_calls
    /\ Len(rl_calls) <= rl_max_calls

\* C13 witness: max_calls = 2; two calls were granted at once, a third caller
\* slept holding the lock while a fourth queued for it, and both were granted
\* when the window had passed
C13_Witness ==
    /\ rl_max_calls = 2
    /\ Len(granted) = 4
    /\ granted[2] = granted[1]
    /\ acq[3].wait_time > 0
    /\ acq[4].called_at < granted[3]
    /\ granted[3] >= granted[1] + TENTHS
    /\ granted[4] = granted[3]
    /\ Len(rl_calls) = 2

-----------------------------------------------------------------------------
(* The bars of one get_ohlcv: source rows -> provider -> manager *)

\* A row is its timestamp.  The timestamps the sources answer with, and the
\* limits asked for
RowTimes == {1, 2, 3}

OhlcvLimits == {2, 5}

RECURSIVE RowsUpTo(_)
RowsUpTo(n) ==
    IF n = 0 THEN {<<>>}
    ELSE RowsUpTo(n - 1) \cup [1..n -> RowTimes]

\* df.tail(limit)
tail(df, limit) ==
    IF Len(df) <= limit THEN df ELSE SubSeq(df, Len(df) - limit + 1, Len(df))

\* One row put into an ascending frame, after the rows not later than it
RECURSIVE InsertRow(_, _)
InsertRow(row, df) ==
    IF df = <<>> THEN <<row>>
    ELSE IF row < Head(df) THEN <<row>> \o df
    ELSE <<Head(df)>> \o InsertRow(row, Tail(df))

\* df.sort_values('timestamp', ascending=True): the same rows, ascending
RECURSIVE sort_values(_)
sort_values(df) ==
    IF df = <<>> THEN <<>>
    ELSE InsertRow(Head(df), sort_values(Tail(df)))

\* BaseDataProvider.normalize_dataframe: an empty frame stays empty, any other
\* is sorted by timestamp; no row is dropped
normalize_dataframe(df) ==
    IF df = <<>> THEN <<>> ELSE sort_values(df)

\* YahooProvider._sync_get_ohlcv: the last `limit` rows of ticker.history
_sync_get_ohlcv(rows, limit) ==
    IF rows = <<>> THEN <<>> ELSE tail(rows, limit)

\* No get_ohlcv under way
IdleOhlcv ==
    [pc |-> "idle", provider |-> "none", raw |-> <<>>, limit |-> 0,
     df |-> <<>>, result |-> <<>>]

NoOhlcvYet == ohlcv = IdleOhlcv

\* YahooProvider.get_ohlcv on a cache miss, the source answering with rows
YahooFetch(rows, limit) ==
    /\ ohlcv.pc = "idle"
    /\ ohlcv' = [ohlcv EXCEPT
                    !.pc = "provider_returned", !.provider = "yahoo",
                    !.raw = rows, !.limit = limit,
                    !.df = normalize_dataframe(_sync_get_ohlcv(rows, limit))]

\* TradingViewHTTPProvider.get_ohlcv: the one row of the snapshot, or nothing
TradingViewHttpFetch(rows, limit) ==
    /\ ohlcv.pc = "idle"
    /\ Len(rows) <= 1
    /\ ohlcv' = [ohlcv EXCEPT
                    !.pc = "provider_returned", !.provider = "tradingview_http",
                    !.raw = rows, !.limit = limit,
                    !.df = IF rows = <<>> THEN <<>> ELSE normalize_dataframe(rows)]

\* ProviderManager.get_ohlcv returns the provider's frame when it is not
\* empty; an empty one ends, after the last candidate, in the empty frame
ManagerReturnsFrame ==
    /\ ohlcv.pc = "provider_returned"
    /\ ohlcv' = [ohlcv EXCEPT !.pc = "returned", !.result = ohlcv.df]

\* The caller asks again
NextQuery ==
    /\ ohlcv.pc = "returned"
    /\ ohlcv' = IdleOhlcv

OhlcvFrame ==
    UNCHANGED <<mgrVars, health_status, wsVars, ws_ohlcv, aggVars, rlVars,
                backoff, codec, http_req, bar_path>>

NextOhlcv ==
    \/ \E rows \in RowsUpTo(MaxRows), limit \in OhlcvLimits :
          YahooFetch(rows, limit) /\ OhlcvFrame
    \/ \E rows \in RowsUpTo(MaxRows), limit \in OhlcvLimits :
          TradingViewHttpFetch(rows, limit) /\ OhlcvFrame
    \/ ManagerReturnsFrame /\ OhlcvFrame
    \/ NextQuery /\ OhlcvFrame

\* C14: a non-empty frame returned by ProviderManager.get_ohlcv has strictly
\* increasing timestamps, so no timestamp twice.
C14_StrictlyIncreasing ==
    ohlcv.pc = "returned" =>
        \A i \in 1..(Len(ohlcv.result) - 1) :
            ohlcv.result[i] < ohlcv.result[i + 1]

-----------------------------------------------------------------------------
(* _reconnect (tradingview_ws.py): the backoff before a reconnect attempt *)

RECONNECT_BASE_DELAY == 1

RECONNECT_MAX_DELAY == 60

\* random.uniform(0, 1), in tenths of a second
Jitters == {0, 5, 10}

\* min(RECONNECT_BASE_DELAY * (2 ** attempts) + jitter, RECONNECT_MAX_DELAY),
\* in tenths of a second; attempts is the counter after its increment
reconnect_delay(attempts, jitter) ==
    Min2(RECONNECT_BASE_DELAY * TENTHS * (2 ^ attempts) + jitter,
         RECONNECT_MAX_DELAY * TENTHS)

IdleBackoff == [attempts |-> 0, slept |-> <<>>, gave_up |-> FALSE]

NoBackoffYet == backoff = IdleBackoff

\* _reconnect with the counter below RECONNECT_MAX_ATTEMPTS: the counter is
\* incremented, the delay computed from it and slept
BackoffSleep(jitter) ==
    /\ ~backoff.gave_up
    /\ backoff.attempts < RECONNECT_MAX_ATTEMPTS
    /\ backoff' = [backoff EXCEPT
          !.attempts = @ + 1,
          !.slept = Append(@, [jitter |-> jitter,
                               delay |-> reconnect_delay(backoff.attempts + 1,
                                                         jitter)])]

\* _reconnect with the counter at RECONNECT_MAX_ATTEMPTS: no sleep, the
\* connection gives up
BackoffGiveUp ==
    /\ ~backoff.gave_up
    /\ backoff.attempts >= RECONNECT_MAX_ATTEMPTS
    /\ backoff' = [backoff EXCEPT !.gave_up = TRUE]

\* The connect() of an attempt succeeds: the counter is 0 again
BackoffReset ==
    /\ ~backoff.gave_up
    /\ backoff.attempts > 0
    /\ backoff' = IdleBackoff

BackoffFrame ==
    UNCHANGED <<mgrVars, health_status, wsVars, ws_ohlcv, aggVars, rlVars, ohlcv,
                codec, http_req, bar_path>>

NextBackoff ==
    \/ \E jitter \in Jitters : BackoffSleep(jitter) /\ BackoffFrame
    \/ BackoffGiveUp /\ BackoffFrame
    \/ BackoffReset /\ BackoffFrame

\* C25: the delay slept before a reconnect attempt that follows `attempt`
\* failed attempts in a row (0 for the first reconnect after a disconnect) is
\* min(base * 2^attempt + jitter, maxDelay): the first delay is at most 2 s
\* and no delay exceeds maxDelay.
C25_BackoffDelay ==
    \A i \in DOMAIN backoff.slept :
        LET attempt == i - 1
            e == backoff.slept[i]
        IN  /\ e.delay = Min2(RECONNECT_BASE_DELAY * TENTHS * (2 ^ attempt) + e.jitter,
                              RECONNECT_MAX_DELAY * TENTHS)
            /\ i = 1 => e.delay <= 2 * TENTHS
            /\ e.delay <= RECONNECT_MAX_DELAY * TENTHS

-----------------------------------------------------------------------------
(* The frame codec (tradingview_ws.py): prepend_header, parse_raw_message.  *)
(* A text is a sequence of tokens; a token is one character, or one of the  *)
(* pieces "~m~", "~h~" (three characters) and "k:" (the four characters of  *)
(* a quoted key and its colon), "q" being the double quote.                 *)

DigitChars == <<"0", "1", "2", "3", "4", "5", "6", "7", "8", "9">>

IsDigit(c) == \E i \in DOMAIN DigitChars : DigitChars[i] = c

\* The number of characters a token stands for
TokenLen(c) ==
    CASE c = "~m~" -> 3
      [] c = "~h~" -> 3
      [] c = "k:" -> 4
      [] OTHER -> 1

\* len(message)
RECURSIVE len(_)
len(text) ==
    IF text = <<>> THEN 0 ELSE TokenLen(Head(text)) + len(Tail(text))

\* A number formatted in decimal, as the f-string does
RECURSIVE str(_)
str(n) ==
    IF n < 10 THEN <<DigitChars[n + 1]>>
    ELSE str(n \div 10) \o <<DigitChars[(n % 10) + 1]>>

\* f"~m~{len(message)}~m~{message}"
prepend_header(message) == <<"~m~">> \o str(len(message)) \o <<"~m~">> \o message

\* raw.split("~m~")
RECURSIVE split(_)
split(raw) ==
    IF \E i \in DOMAIN raw : raw[i] = "~m~"
    THEN LET i == CHOOSE i \in DOMAIN raw :
                     /\ raw[i] = "~m~"
                     /\ \A j \in 1..(i - 1) : raw[j] # "~m~"
         IN  <<SubSeq(raw, 1, i - 1)>> \o split(SubSeq(raw, i + 1, Len(raw)))
    ELSE <<raw>>

\* part.isdigit()
isdigit(part) == part # <<>> /\ \A i \in DOMAIN part : IsDigit(part[i])

\* part.startswith("{")
startswith_brace(part) == part # <<>> /\ part[1] = "{"

JSONDecodeError == [ok |-> FALSE, kind |-> "none", text |-> <<>>]

\* The text between the quotes of a JSON string
IsStringBody(text) ==
    \A i \in DOMAIN text : text[i] \in {"x", "~m~", "~h~"} \/ IsDigit(text[i])

\* json.loads on the objects of this alphabet: {} , {"k":<number>} and
\* {"k":"<text>"}; anything else raises JSONDecodeError
json_loads(part) ==
    LET n == Len(part)
    IN  IF part = <<"{", "}">>
        THEN [ok |-> TRUE, kind |-> "empty", text |-> <<>>]
        ELSE IF n >= 4 /\ part[1] = "{" /\ part[2] = "k:" /\ part[n] = "}"
        THEN LET v == SubSeq(part, 3, n - 1)
             IN  IF isdigit(v) /\ (Len(v) = 1 \/ v[1] # "0")
                 THEN [ok |-> TRUE, kind |-> "number", text |-> v]
                 ELSE IF /\ Len(v) >= 2
                         /\ v[1] = "q"
                         /\ v[Len(v)] = "q"
                         /\ IsStringBody(SubSeq(v, 2, Len(v) - 1))
                 THEN [ok |-> TRUE, kind |-> "string",
                       text |-> SubSeq(v, 2, Len(v) - 1)]
                 ELSE JSONDecodeError
        ELSE JSONDecodeError

\* A faulty loop over the parts: the first JSONDecodeError ends the batch
RECURSIVE ParsePartsAborting(_)
ParsePartsAborting(parts) ==
    IF parts = <<>> THEN <<>>
    ELSE LET part == Head(parts)
         IN  IF part = <<>> \/ isdigit(part) \/ ~startswith_brace(part)
             THEN ParsePartsAborting(Tail(parts))
             ELSE IF json_loads(part).ok
             THEN <<json_loads(part)>> \o ParsePartsAborting(Tail(parts))
             ELSE <<>>

\* The loop of parse_raw_message over the parts: empty parts and digit parts
\* are skipped, a part that starts with a brace is given to json.loads and
\* appended, a JSONDecodeError is passed over
RECURSIVE ParseParts(_)
ParseParts(parts) ==
    IF parts = <<>> THEN <<>>
    ELSE LET part == Head(parts)
         IN  IF part = <<>> \/ isdigit(part) \/ ~startswith_brace(part)
             THEN ParseParts(Tail(parts))
             ELSE IF json_loads(part).ok
             THEN <<json_loads(part)>> \o ParseParts(Tail(parts))
             ELSE ParseParts(Tail(parts))

\* parse_raw_message with the faulty loop
parse_raw_messageAborts(raw) == ParsePartsAborting(split(raw))

parse_raw_message(raw) == ParseParts(split(raw))

\* Payloads the peer writes: JSON objects, one of them with the delimiter in
\* its text and one of two-digit length
JsonPayloads ==
    { <<"{", "}">>,
      <<"{", "k:", "7", "}">>,
      <<"{", "k:", "q", "x", "x", "x", "q", "}">>,
      <<"{", "k:", "q", "x", "~m~", "x", "q", "}">> }

\* Fragments that are not JSON: an unterminated string, an object cut short
MalformedPayloads ==
    { <<"{", "k:", "q", "x", "}">>,
      <<"{", "k:">> }

\* The heartbeat payload ~h~1
HeartbeatPayload == <<"~h~", "1">>

Payloads == JsonPayloads \cup MalformedPayloads \cup {HeartbeatPayload}

IdleCodec == [pc |-> "receiving", payloads |-> <<>>, raw |-> <<>>, messages |-> <<>>]

NoCodecYet == codec = IdleCodec

\* The peer writes one more frame into the buffer
PeerWrites(payload) ==
    /\ codec.pc = "receiving"
    /\ Len(codec.payloads) < MaxFrames
    /\ codec' = [codec EXCEPT !.payloads = Append(@, payload),
                              !.raw = @ \o prepend_header(payload)]

\* _process_message: the buffer recv returned is parsed
ParseRaw ==
    /\ codec.pc = "receiving"
    /\ codec' = [codec EXCEPT !.pc = "parsed",
                              !.messages = parse_raw_message(codec.raw)]

\* The next recv
NextBuffer ==
    /\ codec.pc = "parsed"
    /\ codec' = IdleCodec

CodecFrame ==
    UNCHANGED <<mgrVars, health_status, wsVars, ws_ohlcv, aggVars, rlVars, ohlcv,
                backoff, http_req, bar_path>>

NextCodec ==
    \/ \E payload \in Payloads : PeerWrites(payload) /\ CodecFrame
    \/ ParseRaw /\ CodecFrame
    \/ NextBuffer /\ CodecFrame

\* The messages of the frames, one json.loads per payload
RECURSIVE LoadAll(_)
LoadAll(payloads) ==
    IF payloads = <<>> THEN <<>>
    ELSE <<json_loads(Head(payloads))>> \o LoadAll(Tail(payloads))

\* C27: a buffer of zero, one or many frames whose payloads are JSON is split
\* into exactly those payloads, in buffer order, each taken whole by its
\* declared length, also when its text contains the delimiter.
C27_FramesByDeclaredLength ==
    (/\ codec.pc = "parsed"
     /\ \A i \in DOMAIN codec.payloads : codec.payloads[i] \in JsonPayloads)
        => codec.messages = LoadAll(codec.payloads)

\* A fragment json.loads is given and raises on
Malformed(payload) ==
    /\ startswith_brace(payload)
    /\ \A i \in DOMAIN payload : payload[i] # "~m~"
    /\ ~json_loads(payload).ok

RECURSIVE Encode(_)
Encode(payloads) ==
    IF payloads = <<>> THEN <<>>
    ELSE prepend_header(Head(payloads)) \o Encode(Tail(payloads))

WithoutMalformed(payloads) == SelectSeq(payloads, LAMBDA p : ~Malformed(p))

\* C28: a malformed fragment is dropped and does not abort the batch: the
\* messages returned for a buffer are those returned for the same buffer
\* without its malformed frames, so every frame before or after a bad
\* fragment is returned as it would be without it, in order.
C28_MalformedDropped ==
    codec.pc = "parsed" =>
        codec.messages = parse_raw_message(Encode(WithoutMalformed(codec.payloads)))

\* C28 witness: a buffer with a malformed fragment between two JSON frames
\* was parsed, and the two messages came back in order
C28_Witness ==
    /\ codec.pc = "parsed"
    /\ codec.payloads = << <<"{", "k:", "7", "}">>,
                           <<"{", "k:", "q", "x", "}">>,
                           <<"{", "}">> >>
    /\ codec.messages = << [ok |-> TRUE, kind |-> "number", text |-> <<"7">>],
                           [ok |-> TRUE, kind |-> "empty", text |-> <<>>] >>

-----------------------------------------------------------------------------
(* TradingViewHTTPProvider (tradingview_http.py): the consecutive failures   *)
(* and get_health                                                            *)

HttpAnswers == {"200", "200_empty", "401", "500", "timeout", "exception"}

IdleHttp == [pending |-> 0, requests |-> 0, answered |-> 0, last |-> "none"]

NoHttpYet == http_req = IdleHttp

\* get_snapshots up to the await of session.post
HttpRequestStart ==
    /\ http_req.requests < MaxHttpRequests
    /\ http_req.pending < MaxPending
    /\ http_req' = [http_req EXCEPT !.pending = @ + 1, !.requests = @ + 1]
    /\ UNCHANGED mgrVars
    /\ UNCHANGED health_status

\* get_snapshots from the answer to its return
HttpRequestAnswered(raw) ==
    /\ http_req.pending > 0
    /\ LET r == TradingViewHttpGetOhlcv(raw)
       IN  /\ consecutive_failures' = r.cf
           /\ health_status' = [health_status EXCEPT !["tradingview_http"] = r.hs]
    /\ http_req' = [http_req EXCEPT !.pending = @ - 1, !.answered = @ + 1,
                                    !.last = raw]
    /\ UNCHANGED <<providers, health, stats, calls, auth_failed, yahoo_cache,
                   finnhub_req>>

\* update_health("tradingview_http") of the manager
HttpUpdateHealth ==
    /\ UpdateHealth("tradingview_http")
    /\ UNCHANGED http_req

HttpFrame ==
    UNCHANGED <<wsVars, ws_ohlcv, aggVars, rlVars, ohlcv, backoff, codec, bar_path>>

NextHttp ==
    \/ HttpRequestStart /\ HttpFrame
    \/ \E raw \in HttpAnswers : HttpRequestAnswered(raw) /\ HttpFrame
    \/ HttpUpdateHealth /\ HttpFrame

\* A request was answered in this step
HttpAnswered == http_req'.answered = http_req.answered + 1

\* What get_health reports for a count of consecutive failures
HealthForFailures(cf, recorded) ==
    IF cf >= 5 THEN DOWN
    ELSE IF cf >= 2 THEN DEGRADED
    ELSE recorded

-----------------------------------------------------------------------------
(* The bar path of TradingViewWebSocketProvider (tradingview_ws.py):        *)
(* _process_message, _pending_bars and get_realtime_stream, with two         *)
(* streams.  The connection is followed as far as the streams see it: the    *)
(* connected flag, the reconnect in progress and the subscriptions.          *)

BarStreams == {"s1", "s2"}

NoBarStream ==
    [pc |-> "none", symbols |-> <<>>, since |-> 0, yielded |-> <<>>,
     at_close |-> FALSE, ended_by |-> "none"]

IdleBarPath ==
    [is_connected |-> FALSE, reconnecting |-> FALSE,
     subscribed |-> {}, aggregators |-> {}, server |-> {},
     received |-> <<>>, applied |-> <<>>, pending |-> <<>>,
     streams |-> [k \in BarStreams |-> NoBarStream]]

NoBarsYet == bar_path = IdleBarPath

SymbolsOf(symbols) == {symbols[i] : i \in DOMAIN symbols}

\* A stream is in its loop: waiting in _pending_bars.get(), or suspended at
\* its yield while the consumer works on the bar
Active(stream) == stream.pc \in {"waiting", "yielded"}

\* The subscribe loop of get_realtime_stream: _subscribe_symbol for each
\* symbol that is not subscribed yet
BarSubscribe(b, symbols) ==
    IF b.is_connected
    THEN [b EXCEPT !.subscribed = @ \cup SymbolsOf(symbols),
                   !.aggregators = @ \cup SymbolsOf(symbols),
                   !.server = @ \cup (SymbolsOf(symbols) \ b.subscribed)]
    ELSE b

\* The finally clause of get_realtime_stream: _unsubscribe_symbol for each of
\* the stream's symbols, which returns at once without a connection
BarUnsubscribe(b, k) ==
    IF b.is_connected
    THEN [b EXCEPT !.subscribed = @ \ SymbolsOf(b.streams[k].symbols),
                   !.aggregators = @ \ SymbolsOf(b.streams[k].symbols),
                   !.server = @ \ SymbolsOf(b.streams[k].symbols)]
    ELSE b

\* The stream leaves its loop and runs its finally clause
BarStreamEnds(b, k, why) ==
    [BarUnsubscribe(b, k) EXCEPT !.streams[k].pc = "ended",
                                 !.streams[k].ended_by = why]

\* get_realtime_stream is called: connect() without a connection (a new
\* socket, on which the server knows no symbol), the subscriptions, and the
\* stream waits for bars; or connect() fails and ConnectionError is raised
BarStreamCall(k, symbols, ok) ==
    /\ bar_path.streams[k].pc = "none"
    /\ LET b == bar_path
           c == IF b.is_connected THEN b
                ELSE [b EXCEPT !.is_connected = ok, !.server = {}]
       IN  bar_path' =
              IF c.is_connected
              THEN [BarSubscribe(c, symbols) EXCEPT
                       !.streams[k].pc = "waiting",
                       !.streams[k].symbols = symbols,
                       !.streams[k].since = Len(b.received)]
              ELSE [c EXCEPT !.streams[k].pc = "raised",
                             !.streams[k].symbols = symbols]

\* _process_message on a buffer that carries a quote of a symbol: with a
\* heartbeat in the buffer the buffer is echoed and nothing else is done;
\* otherwise the quote goes to the symbol's aggregator, and a bar that the
\* tick closes is put into _pending_bars
BarProcessMessage(b, frame, symbol, closes, id) ==
    IF ContainsHeartbeat(frame) THEN b
    ELSE IF symbol \in b.aggregators
    THEN [b EXCEPT !.applied = Append(@, id),
                   !.pending = IF closes
                               THEN Append(@, [symbol |-> symbol, id |-> id])
                               ELSE @]
    ELSE b

\* The receive loop gets a buffer with a quote of a symbol the server has
\* been asked for; quotes are numbered in arrival order
BarMessage(frame, symbol, closes) ==
    /\ bar_path.is_connected
    /\ symbol \in bar_path.server
    /\ Len(bar_path.received) < MaxQuotes
    /\ LET id == Len(bar_path.received) + 1
           b == [bar_path EXCEPT
                    !.received = IF symbol \in bar_path.subscribed
                                 THEN Append(@, id) ELSE @]
       IN  /\ symbol \in bar_path.subscribed
           /\ bar_path' = BarProcessMessage(b, frame, symbol, closes, id)

\* _pending_bars.get() returns in stream k, and the bar is yielded
BarYield(k) ==
    /\ bar_path.streams[k].pc = "waiting"
    /\ bar_path.pending # <<>>
    /\ bar_path' = [bar_path EXCEPT
                       !.pending = Tail(@),
                       !.streams[k].pc = "yielded",
                       !.streams[k].yielded = Append(@, Head(bar_path.pending))]

\* The consumer asks for the next bar: `while self._is_connected`
BarConsumerNext(k) ==
    /\ bar_path.streams[k].pc = "yielded"
    /\ bar_path' = IF bar_path.is_connected
                   THEN [bar_path EXCEPT !.streams[k].pc = "waiting"]
                   ELSE BarStreamEnds(bar_path, k, "disconnect")

\* The wait for a bar times out after 1 s with the connected flag cleared:
\* the stream breaks out of its loop
BarPollTimeout(k) ==
    /\ bar_path.streams[k].pc = "waiting"
    /\ bar_path.pending = <<>>
    /\ ~bar_path.is_connected
    /\ bar_path' = BarStreamEnds(bar_path, k, "disconnect")

\* The consumer closes or cancels the stream
BarConsumerCloses(k) ==
    /\ Active(bar_path.streams[k])
    /\ bar_path' = BarStreamEnds(bar_path, k, "consumer")

\* The transport closes: the receive loop clears the flag and enters
\* _reconnect; the streams in their loop at this moment are marked
BarTransportClose ==
    /\ bar_path.is_connected
    /\ ~bar_path.reconnecting
    /\ bar_path' = [bar_path EXCEPT
                       !.is_connected = FALSE, !.reconnecting = TRUE,
                       !.server = {},
                       !.streams = [k \in BarStreams |->
                                      [bar_path.streams[k] EXCEPT
                                          !.at_close = Active(bar_path.streams[k])]]]

\* _reconnect after its sleep of at least 2 s: by then every stream that was
\* waiting with the flag cleared has had its 1 s timeout.  On success the
\* subscriptions are made again on the new socket
BarReconnectDone(ok) ==
    /\ bar_path.reconnecting
    /\ \A k \in BarStreams :
          ~(bar_path.streams[k].pc = "waiting" /\ ~bar_path.is_connected)
    /\ bar_path' =
          IF ok
          THEN [bar_path EXCEPT !.is_connected = TRUE, !.reconnecting = FALSE,
                                !.aggregators = @ \cup bar_path.subscribed,
                                !.server = bar_path.subscribed]
          ELSE [bar_path EXCEPT !.is_connected = FALSE, !.reconnecting = FALSE]

BarFrame ==
    UNCHANGED <<mgrVars, health_status, wsVars, ws_ohlcv, aggVars, rlVars, ohlcv,
                backoff, codec, http_req>>

NextBars ==
    \/ \E k \in BarStreams, inp \in StreamInputs, ok \in BOOLEAN :
          BarStreamCall(k, inp[1], ok) /\ BarFrame
    \/ \E frame \in {QuoteFrame, HeartbeatAndQuoteFrame},
          symbol \in StreamSymbols, closes \in BOOLEAN :
          BarMessage(frame, symbol, closes) /\ BarFrame
    \/ \E k \in BarStreams : BarYield(k) /\ BarFrame
    \/ \E k \in BarStreams : BarConsumerNext(k) /\ BarFrame
    \/ \E k \in BarStreams : BarPollTimeout(k) /\ BarFrame
    \/ \E k \in BarStreams : BarConsumerCloses(k) /\ BarFrame
    \/ BarTransportClose /\ BarFrame
    \/ \E ok \in BOOLEAN : BarReconnectDone(ok) /\ BarFrame

\* The reconnect succeeds in this step
BarReconnected ==
    bar_path.reconnecting /\ ~bar_path'.reconnecting /\ bar_path'.is_connected

\* C34: a stream that is in its loop when the transport closes is still in
\* its loop when the reconnect succeeds: a disconnect that is recovered does
\* not end it, so that it can be given the bars closed afterwards.
C34_StreamSurvivesReconnect ==
    [][ BarReconnected =>
          \A k \in BarStreams :
              bar_path.streams[k].at_close => Active(bar_path'.streams[k]) ]_vars

\* C35: a stream yields only bars of its own symbols that were closed after
\* it subscribed.
C35_OwnBarsOnly ==
    \A k \in BarStreams :
        \A i \in DOMAIN bar_path.streams[k].yielded :
            LET bar == bar_path.streams[k].yielded[i]
            IN  /\ bar.symbol \in SymbolsOf(bar_path.streams[k].symbols)
                /\ bar.id > bar_path.streams[k].since

\* C37: every quote received for a subscribed symbol has been applied to the
\* symbol's aggregator, once and in arrival order, also when its buffer
\* carried a heartbeat.
C37_EveryQuoteApplied ==
    bar_path.applied = bar_path.received

\* C39: when a stream ends while another stream is still in its loop, the
\* symbols of the other stream stay subscribed and keep their aggregators.
C39_SharedSymbolKept ==
    [][ \A k \in BarStreams :
          (Active(bar_path.streams[k]) /\ bar_path'.streams[k].pc = "ended") =>
             \A j \in BarStreams \ {k} :
                Active(bar_path.streams[j]) =>
                   \A symbol \in SymbolsOf(bar_path.streams[j].symbols) :
                      /\ symbol \in bar_path.subscribed =>
                            symbol \in bar_path'.subscribed
                      /\ symbol \in bar_path.aggregators =>
                            symbol \in bar_path'.aggregators ]_vars

-----------------------------------------------------------------------------
(* Specifications: one subsystem moves, the others stay as constructed *)

MgrInit ==
    /\ InitMgr
    /\ ConstructedWs(FALSE)
    /\ ConstructedAgg("1m")
    /\ ConstructedRl(<<3, 1>>)
    /\ NoOhlcvYet
    /\ NoBackoffYet
    /\ NoCodecYet
    /\ NoHttpYet
    /\ NoBarsYet

SpecMgr == MgrInit /\ [][NextMgr]_vars

FinnhubInit == MgrInit

SpecFinnhub == FinnhubInit /\ [][NextFinnhub]_vars

\* Every HTTP attempt is answered: the session's total timeout (DEFAULT_TIMEOUT)
\* ends an attempt that gets no answer, and the sleeps between attempts are
\* finite
FinnhubLiveInit == MgrInit

SpecFinnhubLive ==
    /\ FinnhubLiveInit
    /\ [][NextFinnhub]_vars
    /\ WF_vars(\E status \in FinnhubStatuses : FinnhubResponse(status) /\ MgrFrame)

WsInit ==
    /\ ConstructedMgr(AllProviders)
    /\ InitWs
    /\ ConstructedAgg("1m")
    /\ ConstructedRl(<<3, 1>>)
    /\ NoOhlcvYet
    /\ NoBackoffYet
    /\ NoCodecYet
    /\ NoHttpYet
    /\ NoBarsYet

SpecWs == WsInit /\ [][NextWs]_vars

StreamInit == WsInit

SpecStream == StreamInit /\ [][NextStream]_vars

HeartbeatInit == WsInit

SpecHeartbeat == HeartbeatInit /\ [][NextHeartbeat]_vars

AggInit ==
    /\ ConstructedMgr(AllProviders)
    /\ ConstructedWs(FALSE)
    /\ InitAgg
    /\ ConstructedRl(<<3, 1>>)
    /\ NoOhlcvYet
    /\ NoBackoffYet
    /\ NoCodecYet
    /\ NoHttpYet
    /\ NoBarsYet

SpecAgg == AggInit /\ [][NextAgg]_vars

RlInit ==
    /\ ConstructedMgr(AllProviders)
    /\ ConstructedWs(FALSE)
    /\ ConstructedAgg("1m")
    /\ InitRl
    /\ NoOhlcvYet
    /\ NoBackoffYet
    /\ NoCodecYet
    /\ NoHttpYet
    /\ NoBarsYet

SpecRl == RlInit /\ [][NextRl]_vars

OhlcvInit ==
    /\ ConstructedMgr(AllProviders)
    /\ ConstructedWs(FALSE)
    /\ ConstructedAgg("1m")
    /\ ConstructedRl(<<3, 1>>)
    /\ NoOhlcvYet
    /\ NoBackoffYet
    /\ NoCodecYet
    /\ NoHttpYet
    /\ NoBarsYet

SpecOhlcv == OhlcvInit /\ [][NextOhlcv]_vars

BackoffInit ==
    /\ ConstructedMgr(AllProviders)
    /\ ConstructedWs(FALSE)
    /\ ConstructedAgg("1m")
    /\ ConstructedRl(<<3, 1>>)
    /\ NoOhlcvYet
    /\ NoBackoffYet
    /\ NoCodecYet
    /\ NoHttpYet
    /\ NoBarsYet

SpecBackoff == BackoffInit /\ [][NextBackoff]_vars

CodecInit == BackoffInit

SpecCodec == CodecInit /\ [][NextCodec]_vars

HttpInit == BackoffInit

SpecHttp == HttpInit /\ [][NextHttp]_vars

BarsInit == BackoffInit

SpecBars == BarsInit /\ [][NextBars]_vars

====
